---------------------------- MODULE Spec2Model ----------------------------
(***************************************************************************)
(* Storage reconciliation of a host (controllers/host/storage.go).         *)
(*                                                                         *)
(* A pass of ReconcileStorage compares the desired profile with the host   *)
(* snapshot (HostInfo) and issues create/update/delete calls to the        *)
(* inventory service.  The model keeps the inventory service's records     *)
(* (remote), the pass's snapshot of them (host), the position of the pass  *)
(* (pc, gi), its return value (err) and the trace of the remote calls the  *)
(* pass has issued (log).                                                  *)
(***************************************************************************)
EXTENDS Integers, Sequences, FiniteSets, TLC

VARIABLES
    profile,  \* HostProfileSpec: the desired configuration (read-only)
    sys,      \* system facts the pass reads: system type, clusters, tiers, ...
    remote,   \* the inventory service's records for this host
    host,     \* v1info.HostInfo: the pass's snapshot of the remote records
    pc,       \* position of the pass in ReconcileStorage
    gi,       \* index of the volume group ReconcilePhysicalVolumes is called for
    err,      \* the error value the pass returns (Nil, a wait or an error)
    log,      \* remote calls issued by the current pass, in order
    nextId,   \* next identifier the inventory service assigns
    hist      \* record of the passes made so far

vars == <<profile, sys, remote, host, pc, gi, err, log, nextId, hist>>

-----------------------------------------------------------------------------
(* Bounds of the model.                                                    *)

\* identifiers the inventory service hands out in one behaviour
MaxIds == 8

\* largest journal / partition / filesystem size (GiB) in a profile
MaxSize == 2

\* a step's calls that may fail: the first MaxFailAt of them
MaxFailAt == 4

-----------------------------------------------------------------------------
(* Values.                                                                 *)

None == "none"

\* the n-th identifier the inventory service hands out
Uuid(n) == "u" \o ToString(n)

HostID == "host-0"

\* the disks of the host: identifier and device path
Disks == << [id |-> "dk-a", path |-> "sda"], [id |-> "dk-b", path |-> "sdb"] >>

\* device paths a profile may name; "sdx" is the path of no disk
Paths == {"sda", "sdb", "sdx"}

FunctionOSD == "osd"
FunctionJournal == "journal"

PVTypeDisk == "disk"
PVTypePartition == "partition"

StatusReady == "Ready"
StatusCreating == "Creating"
StatusModifying == "Modifying"
StatusDeleting == "Deleting"

PersonalityWorker == "worker"
PersonalityController == "controller"
PersonalityStorage == "storage"

SystemTypeAllInOne == "All-in-one"
SystemTypeStandard == "Standard"

\* the answer of GetSystemType when the system's type is not known
SystemTypeUnknown == ""

\* hosts.Host.OperationalState
OperationalEnabled == "enabled"
OperationalDisabled == "disabled"

DeploymentModelUndefined == "undefined"
DeploymentModelStorage == "storage-nodes"
DeploymentModelController == "controller-nodes"
DeploymentModelAIO == "aio-sx"

RequiredStateNone == "none"
RequiredStateEnabled == "enabled"
RequiredStateDisabled == "disabled"
RequiredStateAny == "any"

\* reconciler kinds of common.IsReconcilerEnabled
Kinds == {"Storage", "StorageMonitor", "FileSystemTypes", "FileSystemSizes",
          "VolumeGroup", "PhysicalVolume", "Partition", "OSD"}

\* error values
Nil == [type |-> "nil", what |-> ""]
Wait(msg) == [type |-> "wait", what |-> msg]
Error(kind) == [type |-> "error", what |-> kind]

MissingSystemResource == Error("MissingSystemResource")
UserDataError == Error("UserDataError")
TransportError == Error("transport")

\* the waits a reconciler returns (HostReconciler.StartMonitor, NewResourceStatusDependency)
WaitCluster == Wait("waiting for the cluster to be created before allowing OSDs")
WaitModel == Wait("waiting for storage deployment model to be defined before allowing OSDs")
WaitMonitors == Wait("waiting for monitor(s) to be enabled before allowing OSDs")
WaitTier == Wait("waiting for the storage tier to be created")
WaitPartitions == Wait("waiting for partitions to transition to ready state")
WaitAvailable == Wait("waiting for host to reach available state")

-----------------------------------------------------------------------------
(* Sequence helpers.                                                       *)

Range(s) == {s[i] : i \in 1..Len(s)}

\* index of the first element of s with property P, 0 when there is none
FirstIdx(s, P(_)) ==
    IF \E i \in 1..Len(s) : P(s[i])
    THEN CHOOSE i \in 1..Len(s) : P(s[i]) /\ \A j \in 1..(i - 1) : ~P(s[j])
    ELSE 0

Filter(s, P(_)) == SelectSeq(s, P)


-----------------------------------------------------------------------------
(* HostInfo lookups (package platform).  A lookup returns <<>> when it     *)
(* finds nothing and <<record>> when it finds one; optional values of the  *)
(* profile and of the records (Go pointers) are written the same way.      *)

Some(x) == <<x>>
Absent == <<>>
AtIdx(s, i) == IF i = 0 THEN Absent ELSE Some(s[i])

\* HostInfo.FindDiskByPath: the disk with that device path
FindDiskByPath(path) ==
    AtIdx(Disks, FirstIdx(Disks, LAMBDA d : d.path = path))

\* HostInfo.FindVolumeGroup: the snapshot's volume group with that name
FindVolumeGroup(h, name) ==
    AtIdx(h.vgs, FirstIdx(h.vgs, LAMBDA g : g.name = name))

\* the physical volume of the snapshot that sits on device dev
PhysicalVolumeOn(h, dev) ==
    AtIdx(h.pvs, FirstIdx(h.pvs, LAMBDA pv : pv.device = dev))

\* whether partition p is one a (path, size, group) entry stands for: it is
\* on the disk at path, has the size, and is free or used by that group
PartitionMatches(h, p, path, size, group) ==
    LET disk == FindDiskByPath(path)
        vg == FindVolumeGroup(h, group)
        pv == PhysicalVolumeOn(h, p.id)
    IN  /\ disk # Absent
        /\ p.disk = disk[1].id
        /\ p.size = size
        /\ \/ pv = Absent
           \/ vg # Absent /\ pv[1].vg = vg[1].id

\* HostInfo.FindPartitionByPath: the snapshot's partition for (path, size,
\* group)
FindPartitionByPath(h, path, size, group) ==
    AtIdx(h.parts,
          FirstIdx(h.parts, LAMBDA p : PartitionMatches(h, p, path, size, group)))

\* HostInfo.FindPhysicalVolume: the snapshot's physical volume of that group
\* and type on the device that (path, size) stands for
FindPhysicalVolume(h, group, type, path, size) ==
    LET vg == FindVolumeGroup(h, group)
        disk == FindDiskByPath(path)
        OnDevice(pv) ==
            IF type = PVTypeDisk
            THEN disk # Absent /\ pv.device = disk[1].id
            ELSE \E k \in 1..Len(h.parts) :
                    /\ h.parts[k].id = pv.device
                    /\ disk # Absent
                    /\ h.parts[k].disk = disk[1].id
                    /\ h.parts[k].size = size
    IN  AtIdx(h.pvs,
              FirstIdx(h.pvs, LAMBDA pv : vg # Absent /\ pv.vg = vg[1].id
                                          /\ pv.type = type /\ OnDevice(pv)))

\* HostInfo.FindOSDByPath: the snapshot's OSD on the disk at that path
FindOSDByPath(h, path) ==
    LET disk == FindDiskByPath(path)
    IN  AtIdx(h.osds,
              FirstIdx(h.osds, LAMBDA o : disk # Absent /\ o.disk = disk[1].id))

\* HostInfo.FindClusterByName for the cluster an OSD entry names
FindClusterByName(s) == s.cluster

\* HostInfo.StorageTiers[clusterName]
StorageTier(s) == s.tier

\* HostReconciler.MonitorsEnabled(hosts.OSDMinimumMonitorCount)
MonitorsEnabled(s) == s.monitorsEnabled

\* HostReconciler.GetSystemType
GetSystemType(s) == s.systemType

\* strings.EqualFold over the spellings of the personalities
Fold(str) ==
    IF str \in {"Storage", "STORAGE"} THEN "storage"
    ELSE IF str \in {"Controller", "CONTROLLER"} THEN "controller"
    ELSE IF str \in {"Worker", "WORKER"} THEN "worker"
    ELSE str

EqualFold(a, b) == Fold(a) = Fold(b)

\* common.IsReconcilerEnabled
IsReconcilerEnabled(s, kind) == kind \in s.enabled

\* a host that is taken for available whatever its state
IsUnlockedAvailable_Always(s) == TRUE

\* HostInfo.IsUnlockedAvailable
IsUnlockedAvailable(s) == s.available

-----------------------------------------------------------------------------
(* Calls to the inventory service.  A pass is run on a context c: the      *)
(* remote records, the snapshot, the calls issued so far, the error value  *)
(* and the number of calls made in the current step.  The call numbered   *)
(* c.failAt of the step fails and changes nothing.                        *)

\* one call in the trace: what was asked (arg), for which entry of the
\* profile (for), what the service answered (resp) and whether it succeeded
Event(op, kind, arg, for, resp, ok) ==
    [op |-> op, kind |-> kind, arg |-> arg, for |-> for, resp |-> resp, ok |-> ok]

\* issue one call: on success the remote records become newRemote
Issue(c, op, kind, arg, for, resp, newRemote) ==
    IF c.n + 1 = c.failAt
    THEN [c EXCEPT !.n = @ + 1,
                   !.log = Append(@, Event(op, kind, arg, for, None, FALSE)),
                   !.err = TransportError]
    ELSE [c EXCEPT !.n = @ + 1,
                   !.log = Append(@, Event(op, kind, arg, for, resp, TRUE)),
                   !.remote = newRemote]

\* the context after a create that used the next identifier
Assigned(c) == IF c.err = Nil THEN [c EXCEPT !.nextId = @ + 1] ELSE c

\* a create: the service assigns the next identifier to the new record,
\* which rec(id) describes
IssueCreate(c, kind, field, arg, for, rec(_)) ==
    Assigned(Issue(c, "create", kind, arg, for, Uuid(c.nextId),
                   [c.remote EXCEPT ![field] = Append(@, rec(Uuid(c.nextId)))]))

\* the context after a list call: its result replaces a part of the snapshot
Listed(c, field, records) ==
    IF c.err = Nil THEN [c EXCEPT !.host[field] = records] ELSE c

\* a list call that replaces one part of the snapshot
Refresh(c, kind, field, records) ==
    Listed(Issue(c, "list", kind, HostID, None, None, c.remote), field, records)

\* the context after a mutation: the reconciler's updated flag is set
Updated(c) == IF c.err = Nil THEN [c EXCEPT !.updated = TRUE] ELSE c

\* the reconciler returns e: the trace records where the pass stopped
Return(c, e) ==
    [c EXCEPT !.err = e,
              !.log = Append(@, Event("return", e.type, e.what, None, None, TRUE))]

IsMutation(e) == e.op \in {"create", "update", "delete"}

-----------------------------------------------------------------------------
(* ReconcileMonitor                                                        *)

\* the service's record of a new monitor
NewMonitor(id, opts) ==
    [id |-> id, host |-> opts.host,
     size |-> IF opts.size = Absent THEN 1 ELSE opts.size[1]]

\* the monitors after cephmonitors.Update(client, host.ID, opts)
UpdatedMonitors(monitors, opts) ==
    [k \in 1..Len(monitors) |->
        IF monitors[k].host = HostID
        THEN [monitors[k] EXCEPT !.size = opts.size[1]]
        ELSE monitors[k]]

\* the loop over the listed monitors: update the size of this host's monitor
RECURSIVE MonitorUpdateLoop(_, _, _, _)
MonitorUpdateLoop(c, monitors, size, i) ==
    IF c.err # Nil \/ i > Len(monitors) THEN c
    ELSE IF monitors[i].host = HostID /\ size # Absent /\ size[1] # monitors[i].size
    THEN MonitorUpdateLoop(
             Issue(c, "update", "monitor", [size |-> size], "monitor", None,
                   [c.remote EXCEPT !.monitors = UpdatedMonitors(@, [size |-> size])]),
             monitors, size, i + 1)
    ELSE MonitorUpdateLoop(c, monitors, size, i + 1)

\* the create of the monitor with the request opts
MonitorCreate(c, opts) ==
    IssueCreate(c, "monitor", "monitors", opts, "monitor",
                LAMBDA id : NewMonitor(id, opts))

\* an end of ReconcileMonitor that creates a monitor whatever the list holds
MonitorCreateIfAbsent_Always(c, monitors) ==
    IF c.err # Nil THEN c
    ELSE MonitorCreate(c, [host |-> HostID, size |-> profile.monitor[1].size])

\* the end of ReconcileMonitor: create the monitor if the host has none
MonitorCreateIfAbsent(c, monitors) ==
    IF c.err # Nil THEN c
    ELSE IF \E k \in 1..Len(monitors) : monitors[k].host = HostID THEN c
    ELSE MonitorCreate(c, [host |-> HostID, size |-> profile.monitor[1].size])

\* ReconcileMonitor once the monitors were listed
MonitorListed(c, monitors) ==
    IF c.err # Nil THEN c
    ELSE IF profile.monitor = Absent THEN c
    ELSE MonitorCreateIfAbsent(
             MonitorUpdateLoop(c, monitors, profile.monitor[1].size, 1), monitors)

ReconcileMonitor(c) ==
    IF ~IsReconcilerEnabled(sys, "StorageMonitor") THEN c
    ELSE IF profile.personality = Absent
            \/ profile.personality[1] # PersonalityWorker THEN c
    ELSE MonitorListed(Issue(c, "list", "monitor", HostID, None, None, c.remote),
                       c.remote.monitors)

-----------------------------------------------------------------------------
(* ReconcilePartitions                                                     *)

SizeOf(pvInfo) == IF pvInfo.size = Absent THEN 0 ELSE pvInfo.size[1]

\* what a create is issued for: the (group, path, size) of the entry
Identity(group, pvInfo) ==
    [group |-> group.name, type |-> pvInfo.type, path |-> pvInfo.path,
     size |-> SizeOf(pvInfo)]

\* the service's record of a new partition
NewPartition(id, opts, ready) ==
    [id |-> id, disk |-> opts.disk, size |-> opts.size, system |-> FALSE,
     status |-> IF ready THEN StatusReady ELSE StatusCreating]

IsTransient(status) ==
    status \in {StatusDeleting, StatusModifying, StatusCreating}

\* partitions.ListPartitions: the partitions the service lists for the host
ListPartitions(r) == Filter(r.parts, LAMBDA p : ~p.system)

\* HostInfo.PopulateSystemPartitions: the partitions the service created itself
SystemPartitions(r) == Filter(r.parts, LAMBDA p : p.system)

\* a partition reconciler that waits for the disk of an entry to appear
PartitionCreate_Waits(c, group, pvInfo, disk) ==
    IF disk = Absent THEN Return(c, WaitPartitions)
    ELSE Updated(IssueCreate(
             c, "partition", "parts",
             [disk |-> disk[1].id, size |-> SizeOf(pvInfo)],
             Identity(group, pvInfo),
             LAMBDA id : NewPartition(id, [disk |-> disk[1].id, size |-> SizeOf(pvInfo)],
                                      c.partReady)))

\* the create of the partition of an entry on the disk found for it
PartitionCreate(c, group, pvInfo, disk) ==
    IF disk = Absent THEN Return(c, MissingSystemResource)
    ELSE Updated(IssueCreate(
             c, "partition", "parts",
             [disk |-> disk[1].id, size |-> SizeOf(pvInfo)],
             Identity(group, pvInfo),
             LAMBDA id : NewPartition(id, [disk |-> disk[1].id, size |-> SizeOf(pvInfo)],
                                      c.partReady)))

\* one entry of ReconcilePartitions' loop
ReconcilePartition(c, group, pvInfo) ==
    IF pvInfo.type # PVTypePartition \/ pvInfo.size = Absent THEN c
    ELSE IF FindPartitionByPath(c.host, pvInfo.path, SizeOf(pvInfo), group.name) # Absent
    THEN c
    ELSE PartitionCreate(c, group, pvInfo, FindDiskByPath(pvInfo.path))

\* the loop over the group's physical volumes: create the missing partitions
RECURSIVE PartitionCreateLoop(_, _, _)
PartitionCreateLoop(c, group, i) ==
    IF c.err # Nil \/ i > Len(group.pvs) THEN c
    ELSE PartitionCreateLoop(ReconcilePartition(c, group, group.pvs[i]), group, i + 1)

\* the second list call of the refresh: the system's partitions are appended
PopulateSystemPartitions(c) ==
    IF c.err # Nil THEN c
    ELSE Refresh(c, "syspartition", "parts", c.host.parts \o SystemPartitions(c.remote))

\* the refresh of the partition list after a creation
PartitionRefresh(c) ==
    IF c.err # Nil THEN c
    ELSE IF c.updated
    THEN PopulateSystemPartitions(
             Refresh(c, "partition", "parts", ListPartitions(c.remote)))
    ELSE c

\* a wait for the partitions that the service did not create for itself
PartitionSettled_UserOnly(c) ==
    IF c.err # Nil THEN c
    ELSE IF \E k \in 1..Len(c.host.parts) :
               ~c.host.parts[k].system /\ IsTransient(c.host.parts[k].status)
    THEN Return(c, WaitPartitions)
    ELSE c

\* the wait for the partitions of the snapshot to be ready
PartitionSettled(c) ==
    IF c.err # Nil THEN c
    ELSE IF \E k \in 1..Len(c.host.parts) : IsTransient(c.host.parts[k].status)
    THEN Return(c, WaitPartitions)
    ELSE c

ReconcilePartitions(c, group) ==
    IF ~IsReconcilerEnabled(sys, "Partition") THEN c
    ELSE PartitionSettled(PartitionRefresh(
             PartitionCreateLoop([c EXCEPT !.updated = FALSE], group, 1)))

-----------------------------------------------------------------------------
(* ReconcilePhysicalVolumes                                                *)

\* the service's record of a new physical volume
NewPhysicalVolume(id, opts) ==
    [id |-> id, vg |-> opts.vg, type |-> opts.type, device |-> opts.device]

\* the device of a physical volume entry: its partition or its disk
DeviceOf(found) == IF found # Absent THEN found[1].id ELSE ""

\* a device named by the path of the entry
DeviceID_Path(h, group, pvInfo) == pvInfo.path

DeviceID(h, group, pvInfo) ==
    IF pvInfo.type = PVTypePartition
    THEN DeviceOf(FindPartitionByPath(h, pvInfo.path, SizeOf(pvInfo), group.name))
    ELSE DeviceOf(FindDiskByPath(pvInfo.path))

\* the create of the physical volume of an entry on the device found for it
PhysicalVolumeCreate(c, group, vg, pvInfo, deviceID) ==
    IF deviceID = "" THEN Return(c, MissingSystemResource)
    ELSE Updated(IssueCreate(
             c, "pv", "pvs",
             [device |-> deviceID, vg |-> vg.id, type |-> pvInfo.type],
             Identity(group, pvInfo),
             LAMBDA id : NewPhysicalVolume(
                             id, [device |-> deviceID, vg |-> vg.id,
                                  type |-> pvInfo.type])))

\* one entry of ReconcilePhysicalVolumes' loop
ReconcilePhysicalVolume(c, group, vg, pvInfo) ==
    IF FindPhysicalVolume(c.host, group.name, pvInfo.type, pvInfo.path,
                          SizeOf(pvInfo)) # Absent
    THEN c
    ELSE PhysicalVolumeCreate(c, group, vg, pvInfo, DeviceID(c.host, group, pvInfo))

\* the loop over the group's physical volumes: create the missing ones
RECURSIVE PhysicalVolumeCreateLoop(_, _, _, _)
PhysicalVolumeCreateLoop(c, group, vg, i) ==
    IF c.err # Nil \/ i > Len(group.pvs) THEN c
    ELSE PhysicalVolumeCreateLoop(
             ReconcilePhysicalVolume(c, group, vg, group.pvs[i]), group, vg, i + 1)

\* the refresh of the physical volume list after a creation
PhysicalVolumeRefresh(c) ==
    IF c.err # Nil THEN c
    ELSE IF c.updated THEN Refresh(c, "pv", "pvs", c.remote.pvs)
    ELSE c

\* ReconcilePhysicalVolumes once ReconcilePartitions returned
PartitionsReconciled(c, group, vg) ==
    IF c.err # Nil THEN c
    ELSE PhysicalVolumeRefresh(
             PhysicalVolumeCreateLoop([c EXCEPT !.updated = FALSE], group, vg, 1))

\* a physical volume reconciler that goes on without the volume group
VolumeGroupFound_Unchecked(c, group, vg) ==
    IF vg = Absent
    THEN PartitionsReconciled(ReconcilePartitions(c, group), group, [id |-> ""])
    ELSE PartitionsReconciled(ReconcilePartitions(c, group), group, vg[1])

\* ReconcilePhysicalVolumes once the volume group was looked up
VolumeGroupFound(c, group, vg) ==
    IF vg = Absent THEN Return(c, MissingSystemResource)
    ELSE PartitionsReconciled(ReconcilePartitions(c, group), group, vg[1])

ReconcilePhysicalVolumes(c, group) ==
    IF ~IsReconcilerEnabled(sys, "PhysicalVolume") THEN c
    ELSE VolumeGroupFound(c, group, FindVolumeGroup(c.host, group.name))

-----------------------------------------------------------------------------
(* ReconcileVolumeGroups                                                   *)

\* the service's record of a new volume group
NewVolumeGroup(id, opts) == [id |-> id, name |-> opts.name]

\* the create of a volume group with the request opts
VolumeGroupCreateOne(c, opts) ==
    Updated(IssueCreate(c, "vg", "vgs", opts, opts.name,
                        LAMBDA id : NewVolumeGroup(id, opts)))

\* the loop over the profile's volume groups: create the missing ones
RECURSIVE VolumeGroupCreateLoop(_, _, _)
VolumeGroupCreateLoop(c, groups, i) ==
    IF c.err # Nil \/ i > Len(groups) THEN c
    ELSE IF FindVolumeGroup(c.host, groups[i].name) # Absent
    THEN VolumeGroupCreateLoop(c, groups, i + 1)
    ELSE VolumeGroupCreateLoop(
             VolumeGroupCreateOne(c, [name |-> groups[i].name,
                                      lvmType |-> groups[i].lvmType]),
             groups, i + 1)

\* whether ReconcileVolumeGroups goes past its first two returns
VolumeGroupsConfigured ==
    profile.vgs # Absent /\ IsReconcilerEnabled(sys, "VolumeGroup")

\* the refresh of the volume group list after a creation
VolumeGroupRefresh(c) ==
    IF c.err # Nil THEN c
    ELSE IF c.updated THEN Refresh(c, "vg", "vgs", c.remote.vgs)
    ELSE c

\* the first half of ReconcileVolumeGroups: create the groups, refresh
VolumeGroupCreate(c) ==
    VolumeGroupRefresh(
        VolumeGroupCreateLoop([c EXCEPT !.updated = FALSE], profile.vgs[1], 1))

-----------------------------------------------------------------------------
(* OSDs                                                                    *)

\* the entries of the profile's OSD list
DesiredOSDs == profile.osds[1]

\* the service's record of a new OSD: without a journal in the request the
\* journal is collocated, its location the OSD itself
NewOSD(id, opts) ==
    [id |-> id, disk |-> opts.disk, function |-> opts.function,
     jloc |-> IF opts.jloc = Absent THEN Some(id) ELSE opts.jloc,
     jsize |-> IF opts.jsize = Absent THEN 1 ELSE opts.jsize[1],
     tier |-> opts.tier]

\* a service that answers an update and changes nothing
UpdatedOSDs_Ignored(osds, id, opts) == osds

\* the OSDs after osds.Update(client, id, opts)
UpdatedOSDs(osds, id, opts) ==
    [k \in 1..Len(osds) |->
        IF osds[k].id = id
        THEN [osds[k] EXCEPT
                 !.jloc = IF opts.jloc = Absent THEN @ ELSE opts.jloc,
                 !.jsize = IF opts.jsize = Absent THEN @ ELSE opts.jsize[1]]
        ELSE osds[k]]

\* the OSDs after osds.Delete(client, id)
WithoutOSD(osds, id) == Filter(osds, LAMBDA o : o.id # id)

\* a reconciler that keeps the OSD list it was given
OSDRefresh_Skipped(c) == c

\* the refresh of the OSD list after a reconciler changed an OSD
OSDRefresh(c) ==
    IF c.err # Nil THEN c
    ELSE IF c.updated THEN Refresh(c, "osd", "osds", c.remote.osds)
    ELSE c

NoOSDOpts ==
    [disk |-> "", function |-> "", jloc |-> Absent, jsize |-> Absent, tier |-> Absent]

\* an update of the journal size whenever the entry has a journal
osdUpdateRequired_Always(osdInfo, osd) ==
    IF osdInfo.journal # Absent
    THEN [opts |-> [NoOSDOpts EXCEPT !.jsize = Some(osdInfo.journal[1].size)],
          result |-> TRUE]
    ELSE [opts |-> NoOSDOpts, result |-> FALSE]

\* osdUpdateRequired: the update an existing OSD needs for the entry
osdUpdateRequired(osdInfo, osd) ==
    IF osdInfo.journal # Absent /\ osd.jloc = Absent
    THEN [opts |-> [NoOSDOpts EXCEPT !.jloc = Some(osdInfo.journal[1].location),
                                     !.jsize = Some(osdInfo.journal[1].size)],
          result |-> TRUE]
    ELSE IF osdInfo.journal # Absent /\ osd.jsize # osdInfo.journal[1].size
    THEN [opts |-> [NoOSDOpts EXCEPT !.jsize = Some(osdInfo.journal[1].size)],
          result |-> TRUE]
    ELSE [opts |-> NoOSDOpts, result |-> FALSE]

\* the OSDs of the snapshot that an entry of the profile names by path
PresentOSDs(h) ==
    {FindOSDByPath(h, DesiredOSDs[k].path)[1].id :
        k \in {j \in 1..Len(DesiredOSDs) : FindOSDByPath(h, DesiredOSDs[j].path) # Absent}}

\* NeedsRecreate without the comparison of the journal location with the OSD
NeedsRecreate_AnyLocation(osdInfo, osd) ==
    \/ osd.function # osdInfo.function
    \/ /\ osd.function = osdInfo.function
       /\ osdInfo.journal = Absent
       /\ osd.jloc # Absent

\* whether the entry asks for a change of the OSD that needs a re-creation
NeedsRecreate(osdInfo, osd) ==
    \/ osd.function # osdInfo.function
    \/ /\ osd.function = osdInfo.function
       /\ osdInfo.journal = Absent
       /\ osd.jloc # Absent
       /\ osd.jloc[1] # osd.id

\* the OSDs of the snapshot that an entry names and wants re-created
UpdatedOSDSet(h) ==
    {FindOSDByPath(h, DesiredOSDs[k].path)[1].id :
        k \in {j \in 1..Len(DesiredOSDs) :
                 /\ FindOSDByPath(h, DesiredOSDs[j].path) # Absent
                 /\ NeedsRecreate(DesiredOSDs[j], FindOSDByPath(h, DesiredOSDs[j].path)[1])}}

\* whether ReconcileStaleOSDs deletes the OSD
IsStale(osd, present, updated) == osd.id \notin present \/ osd.id \in updated

\* the loop over the snapshot's OSDs: delete the stale ones
RECURSIVE StaleDeleteLoop(_, _, _, _, _)
StaleDeleteLoop(c, osds, present, updated, i) ==
    IF c.err # Nil \/ i > Len(osds) THEN c
    ELSE IF IsStale(osds[i], present, updated)
    THEN StaleDeleteLoop(
             Updated(Issue(c, "delete", "osd", osds[i].id, osds[i], None,
                           [c.remote EXCEPT !.osds = WithoutOSD(@, osds[i].id)])),
             osds, present, updated, i + 1)
    ELSE StaleDeleteLoop(c, osds, present, updated, i + 1)

\* a stale OSD reconciler that does not ask whether it is enabled
ReconcileStaleOSDs_Unchecked(c) ==
    IF profile.osds = Absent THEN c
    ELSE OSDRefresh(StaleDeleteLoop([c EXCEPT !.updated = FALSE], c.host.osds,
                                    PresentOSDs(c.host), UpdatedOSDSet(c.host), 1))

ReconcileStaleOSDs(c) ==
    IF profile.osds = Absent THEN c
    ELSE IF ~IsReconcilerEnabled(sys, "OSD") THEN c
    ELSE OSDRefresh(StaleDeleteLoop([c EXCEPT !.updated = FALSE], c.host.osds,
                                    PresentOSDs(c.host), UpdatedOSDSet(c.host), 1))

\* a classifier that permits OSDs on standard systems to storage and
\* controller hosts only
OSDProvisioningState_ControllersOnly(s) ==
    IF GetSystemType(s) = SystemTypeAllInOne THEN RequiredStateAny
    ELSE IF GetSystemType(s) = SystemTypeStandard
    THEN IF EqualFold(s.personality, PersonalityStorage)
         THEN RequiredStateDisabled
         ELSE IF EqualFold(s.personality, PersonalityController)
         THEN RequiredStateEnabled
         ELSE RequiredStateNone
    ELSE RequiredStateNone

\* OSDProvisioningState: the host state in which OSDs may be added
OSDProvisioningState(s) ==
    IF GetSystemType(s) = SystemTypeAllInOne THEN RequiredStateAny
    ELSE IF GetSystemType(s) = SystemTypeStandard
    THEN IF EqualFold(s.personality, PersonalityStorage)
         THEN RequiredStateDisabled
         ELSE RequiredStateEnabled
    ELSE RequiredStateNone

\* a gate that looks at the tier before it counts the monitors
OSDProvisioningAllowed_TierFirst(s, tierUUID) ==
    LET cluster == FindClusterByName(s)
    IN  IF cluster = Absent THEN WaitCluster
        ELSE IF cluster[1].model = DeploymentModelUndefined THEN WaitModel
        ELSE IF tierUUID = Absent THEN WaitTier
        ELSE IF /\ cluster[1].model \in {DeploymentModelStorage, DeploymentModelController}
                /\ GetSystemType(s) = SystemTypeStandard
                /\ ~MonitorsEnabled(s)
        THEN WaitMonitors
        ELSE Nil

\* OSDProvisioningAllowed: Nil, or the wait for the first condition unmet
OSDProvisioningAllowed(s, tierUUID) ==
    LET cluster == FindClusterByName(s)
    IN  IF cluster = Absent THEN WaitCluster
        ELSE IF cluster[1].model = DeploymentModelUndefined THEN WaitModel
        ELSE IF /\ cluster[1].model \in {DeploymentModelStorage, DeploymentModelController}
                /\ GetSystemType(s) = SystemTypeStandard
                /\ ~MonitorsEnabled(s)
        THEN WaitMonitors
        ELSE IF tierUUID = Absent THEN WaitTier
        ELSE Nil

\* a journal location that names the journal's disk, not the journal OSD
JournalLocation_Disk(journal) == Some(journal.disk)

\* the journal location buildOSDOpts puts in the request: the journal OSD's id
JournalLocation(journal) == Some(journal.id)

\* buildOSDOpts once the journal OSD was looked up
BuildWithJournal(s, osdInfo, disk, journal) ==
    IF journal = Absent
    THEN [opts |-> NoOSDOpts, err |-> MissingSystemResource]
    ELSE IF journal[1].function # FunctionJournal
    THEN [opts |-> NoOSDOpts, err |-> UserDataError]
    ELSE [opts |-> [disk |-> disk.id, function |-> osdInfo.function,
                    jloc |-> JournalLocation(journal[1]),
                    jsize |-> Some(osdInfo.journal[1].size),
                    tier |-> StorageTier(s)],
          err |-> Nil]

\* buildOSDOpts once the disk was looked up
BuildWithDisk(h, s, osdInfo, disk) ==
    IF disk = Absent
    THEN [opts |-> NoOSDOpts, err |-> MissingSystemResource]
    ELSE IF osdInfo.journal = Absent
    THEN [opts |-> [disk |-> disk[1].id, function |-> osdInfo.function,
                    jloc |-> Absent, jsize |-> Absent, tier |-> StorageTier(s)],
          err |-> Nil]
    ELSE BuildWithJournal(s, osdInfo, disk[1],
                          FindOSDByPath(h, osdInfo.journal[1].location))

\* buildOSDOpts: the create request for an entry, or an error
buildOSDOpts(h, s, osdInfo) ==
    BuildWithDisk(h, s, osdInfo, FindDiskByPath(osdInfo.path))

\* a create without the admission check
Admission_Skipped(s, opts) == Nil

\* the admission check ReconcileOSDsByType makes before a create
Admission(s, opts) == OSDProvisioningAllowed(s, opts.tier)

\* the create of an OSD once the admission check was made
CreateAdmitted(c, osdInfo, opts, allowed) ==
    IF allowed # Nil THEN Return(c, allowed)
    ELSE Updated(IssueCreate(c, "osd", "osds", opts, osdInfo,
                             LAMBDA id : NewOSD(id, opts)))

\* a create that asks the admission gate before it looks at the request
CreateOSD_GateFirst(c, osdInfo, built) ==
    IF Admission(sys, built.opts) # Nil THEN Return(c, Admission(sys, built.opts))
    ELSE IF built.err # Nil THEN Return(c, built.err)
    ELSE CreateAdmitted(c, osdInfo, built.opts, Nil)

\* the create of an OSD once its request was built
CreateOSD(c, osdInfo, built) ==
    IF built.err # Nil THEN Return(c, built.err)
    ELSE CreateAdmitted(c, osdInfo, built.opts, Admission(sys, built.opts))

\* an update of every existing OSD, required or not
UpdateOSD_Unasked(c, osdInfo, osd, upd) ==
    Updated(Issue(c, "update", "osd", [id |-> osd.id, opts |-> upd.opts],
                  osdInfo, None,
                  [c.remote EXCEPT !.osds = UpdatedOSDs(@, osd.id, upd.opts)]))

\* the update of an existing OSD, if one is required
UpdateOSD(c, osdInfo, osd, upd) ==
    IF ~upd.result THEN c
    ELSE Updated(Issue(c, "update", "osd", [id |-> osd.id, opts |-> upd.opts],
                       osdInfo, None,
                       [c.remote EXCEPT !.osds = UpdatedOSDs(@, osd.id, upd.opts)]))

\* one entry of ReconcileOSDsByType's loop, once the OSD was looked up
ReconcileFoundOSD(c, osdInfo, osd) ==
    IF osd # Absent
    THEN UpdateOSD(c, osdInfo, osd[1], osdUpdateRequired(osdInfo, osd[1]))
    ELSE CreateOSD(c, osdInfo, buildOSDOpts(c.host, sys, osdInfo))

\* one entry of ReconcileOSDsByType's loop
ReconcileOSD(c, osdInfo) ==
    ReconcileFoundOSD(c, osdInfo, FindOSDByPath(c.host, osdInfo.path))

\* the loop of ReconcileOSDsByType over the profile's entries of one function
RECURSIVE OSDLoop(_, _, _)
OSDLoop(c, function, i) ==
    IF c.err # Nil \/ i > Len(DesiredOSDs) THEN c
    ELSE IF DesiredOSDs[i].function # function THEN OSDLoop(c, function, i + 1)
    ELSE OSDLoop(ReconcileOSD(c, DesiredOSDs[i]), function, i + 1)

ReconcileOSDsByType(c, function) ==
    OSDRefresh(OSDLoop([c EXCEPT !.updated = FALSE], function, 1))

\* whether ReconcileOSDs goes past its first three returns
OSDsConfigured ==
    /\ profile.osds # Absent
    /\ IsReconcilerEnabled(sys, "OSD")
    /\ Len(DesiredOSDs) # 0

\* an order that leaves the data OSDs out
OSDFunctionOrder_JournalsOnly == <<FunctionJournal, FunctionJournal>>

\* the order in which ReconcileOSDs reconciles the functions
OSDFunctionOrder == <<FunctionJournal, FunctionOSD>>

-----------------------------------------------------------------------------
(* Filesystems                                                             *)

\* filesystems the reconciler may create and may delete
FileSystemCreationAllowed == <<"instances", "ceph">>
FileSystemDeletionAllowed == <<"instances", "ceph">>

\* a delta that compares the two lists position by position
ListDelta_Positional(a, b) ==
    [added |-> [k \in 1..Len(b) |-> b[k]],
     removed |-> Filter(a, LAMBDA x : x \notin Range(b)),
     same |-> SelectSeq(b, LAMBDA x : Len(a) > 0 /\ x = a[1])]

\* common.ListDelta(a, b): the names b adds to a, removes from a, and shares
ListDelta(a, b) ==
    [added |-> Filter(b, LAMBDA x : x \notin Range(a)),
     removed |-> Filter(a, LAMBDA x : x \notin Range(b)),
     same |-> Filter(b, LAMBDA x : x \in Range(a))]

Names(fsList) == [k \in 1..Len(fsList) |-> fsList[k].name]

\* the filesystems ReconcileFileSystemTypes creates and deletes
FileSystemsToAdd(configured, current) ==
    ListDelta(ListDelta(current, configured).added, FileSystemCreationAllowed).same

\* a removal of every filesystem the profile does not name
FileSystemsToRemove_Unrestricted(configured, current) ==
    ListDelta(current, configured).removed

FileSystemsToRemove(configured, current) ==
    ListDelta(ListDelta(current, configured).removed, FileSystemDeletionAllowed).same

\* the service's record of a new filesystem
NewFileSystem(id, opts) == [id |-> id, name |-> opts.name, size |-> opts.size]

\* the list call after a filesystem was deleted or created
FileSystemRefresh(c) ==
    IF c.err # Nil THEN c ELSE Refresh(c, "fs", "fs", c.remote.fs)

\* the inner loop of DeleteFileSystems: the snapshot's filesystems of a name
RECURSIVE DeleteFileSystemsNamed(_, _, _, _)
DeleteFileSystemsNamed(c, fsInfo, fsList, j) ==
    IF c.err # Nil \/ j > Len(fsList) THEN c
    ELSE IF fsInfo # fsList[j].name THEN DeleteFileSystemsNamed(c, fsInfo, fsList, j + 1)
    ELSE DeleteFileSystemsNamed(
             FileSystemRefresh(
                 Issue(c, "delete", "fs", fsList[j].id, fsList[j].name, None,
                       [c.remote EXCEPT
                           !.fs = Filter(@, LAMBDA x : x.id # fsList[j].id)])),
             fsInfo, fsList, j + 1)

RECURSIVE DeleteFileSystems(_, _, _)
DeleteFileSystems(c, removed, i) ==
    IF c.err # Nil \/ i > Len(removed) THEN c
    ELSE DeleteFileSystems(DeleteFileSystemsNamed(c, removed[i], c.host.fs, 1),
                           removed, i + 1)

\* the create of a filesystem with the request opts
FileSystemCreate(c, opts) ==
    FileSystemRefresh(IssueCreate(c, "fs", "fs", opts, opts.name,
                                  LAMBDA id : NewFileSystem(id, opts)))

\* the inner loop of CreateFileSystems: the profile's filesystems of a name
RECURSIVE CreateFileSystemsNamed(_, _, _, _)
CreateFileSystemsNamed(c, fsInfo, fsList, j) ==
    IF c.err # Nil \/ j > Len(fsList) THEN c
    ELSE IF fsInfo # fsList[j].name THEN CreateFileSystemsNamed(c, fsInfo, fsList, j + 1)
    ELSE CreateFileSystemsNamed(
             FileSystemCreate(c, [name |-> fsList[j].name, size |-> fsList[j].size,
                                  host |-> HostID]),
             fsInfo, fsList, j + 1)

RECURSIVE CreateFileSystems(_, _, _)
CreateFileSystems(c, added, i) ==
    IF c.err # Nil \/ i > Len(added) THEN c
    ELSE CreateFileSystems(CreateFileSystemsNamed(c, added[i], profile.fs[1], 1),
                           added, i + 1)

\* ReconcileFileSystemTypes once the deletions were made
FileSystemsDeleted(c, fs_to_add) ==
    IF c.err # Nil THEN c ELSE CreateFileSystems(c, fs_to_add, 1)

ReconcileFileSystemTypes(c) ==
    IF profile.fs = Absent THEN c
    ELSE IF ~IsReconcilerEnabled(sys, "FileSystemTypes") THEN c
    ELSE IF Len(profile.fs[1]) = 0 THEN c
    ELSE FileSystemsDeleted(
             DeleteFileSystems(
                 c, FileSystemsToRemove(Names(profile.fs[1]), Names(c.host.fs)), 1),
             FileSystemsToAdd(Names(profile.fs[1]), Names(c.host.fs)))

\* a comparison that also takes a filesystem of the desired size
Grows_OrEqual(fsInfo, fs) == fsInfo.size >= fs.size

\* whether the entry grows the filesystem
Grows(fsInfo, fs) == fsInfo.size > fs.size

\* the update entries ReconcileFileSystemSizes collects for one entry
Growing(h, fsInfo) ==
    Filter(h.fs, LAMBDA fs : fs.name = fsInfo.name /\ Grows(fsInfo, fs))

FileSystemUpdates(h, fsInfo) ==
    [k \in 1..Len(Growing(h, fsInfo)) |-> [name |-> fsInfo.name, size |-> fsInfo.size]]

\* the loop over the profile's filesystems: collect the updates
RECURSIVE FileSystemSizeLoop(_, _, _)
FileSystemSizeLoop(c, updates, i) ==
    IF i > Len(profile.fs[1]) THEN [c |-> c, updates |-> updates]
    ELSE IF ~\E k \in 1..Len(c.host.fs) : c.host.fs[k].name = profile.fs[1][i].name
    THEN [c |-> Return(c, MissingSystemResource), updates |-> updates]
    ELSE FileSystemSizeLoop(c, updates \o FileSystemUpdates(c.host, profile.fs[1][i]),
                            i + 1)

\* the filesystems after hostFilesystems.Update(client, host.ID, updates)
UpdatedFileSystem(fs, updates, i) ==
    IF i = 0 THEN fs ELSE [fs EXCEPT !.size = updates[i].size]

UpdatedFileSystems(fsList, updates) ==
    [k \in 1..Len(fsList) |->
        UpdatedFileSystem(fsList[k], updates,
                          FirstIdx(updates, LAMBDA u : u.name = fsList[k].name))]

\* the end of ReconcileFileSystemSizes: one update call for the collected entries
FileSystemSizeUpdate(c, updates) ==
    IF c.err # Nil THEN c
    ELSE IF Len(updates) > 0
    THEN Issue(c, "update", "fs", updates, "sizes", None,
               [c.remote EXCEPT !.fs = UpdatedFileSystems(@, updates)])
    ELSE c

\* an end that sends the updates collected before the loop stopped
FileSystemSizesCollected_Partial(r) ==
    IF Len(r.updates) > 0
    THEN Return(FileSystemSizeUpdate([r.c EXCEPT !.err = Nil], r.updates), r.c.err)
    ELSE r.c

\* ReconcileFileSystemSizes once the updates were collected
FileSystemSizesCollected(r) == FileSystemSizeUpdate(r.c, r.updates)

ReconcileFileSystemSizes(c) ==
    IF profile.fs = Absent THEN c
    ELSE IF ~IsReconcilerEnabled(sys, "FileSystemSizes") THEN c
    ELSE IF Len(profile.fs[1]) = 0 THEN c
    ELSE IF ~IsUnlockedAvailable(sys) THEN Return(c, WaitAvailable)
    ELSE FileSystemSizesCollected(FileSystemSizeLoop(c, <<>>, 1))

-----------------------------------------------------------------------------
(* ReconcileOSDs and ReconcileStorage                                      *)

\* the second pass of ReconcileOSDs, unless the first returned an error
NextFunction(c, function) ==
    IF c.err # Nil THEN c ELSE ReconcileOSDsByType(c, function)

ReconcileOSDs(c) ==
    IF ~OSDsConfigured THEN c
    ELSE NextFunction(ReconcileOSDsByType(c, OSDFunctionOrder[1]),
                      OSDFunctionOrder[2])

\* a switch that also reconciles the OSDs of hosts that must be enabled
ReconcileOSDsIfAllowed_Enabled(c) ==
    IF OSDProvisioningState(sys) \in {RequiredStateDisabled, RequiredStateAny,
                                      RequiredStateEnabled}
    THEN ReconcileOSDs(c)
    ELSE c

\* the switch of ReconcileStorage on the provisioning state
ReconcileOSDsIfAllowed(c) ==
    IF OSDProvisioningState(sys) \in {RequiredStateDisabled, RequiredStateAny}
    THEN ReconcileOSDs(c)
    ELSE c

\* the steps of ReconcileStorage, in the order of the calls
StepOrder == <<"Monitor", "FileSystemTypes", "VolumeGroups", "StaleOSDs", "OSDs">>

\* a pass that starts over after its last step
After_StartsOver(step) ==
    LET i == FirstIdx(StepOrder, LAMBDA x : x = step)
    IN  IF i = Len(StepOrder) THEN StepOrder[1] ELSE StepOrder[i + 1]

\* the step that follows a step that returned nil
After(step) ==
    LET i == FirstIdx(StepOrder, LAMBDA x : x = step)
    IN  IF i = Len(StepOrder) THEN "done" ELSE StepOrder[i + 1]

\* whether ReconcileStorage goes past its first two returns
StorageConfigured == IsReconcilerEnabled(sys, "Storage") /\ profile.hasStorage

\* the snapshot the caller builds before a pass (HostInfo.Build)
Build(r) ==
    [fs |-> r.fs, vgs |-> r.vgs, pvs |-> r.pvs, osds |-> r.osds,
     parts |-> ListPartitions(r) \o SystemPartitions(r)]

\* the context a step starts with
Ctx(failAt, partReady) ==
    [remote |-> remote, host |-> host, log |-> log, err |-> Nil, n |-> 0,
     nextId |-> nextId, failAt |-> failAt, partReady |-> partReady,
     updated |-> FALSE]

FailAts == 0..MaxFailAt

\* a pass that goes on with the next step whatever the step returned
Finish_GoesOn(c, next, g) ==
    /\ remote' = c.remote
    /\ host' = c.host
    /\ log' = c.log
    /\ err' = c.err
    /\ nextId' = c.nextId
    /\ pc' = next
    /\ gi' = g
    /\ UNCHANGED <<profile, sys, hist>>

\* a step ends: the pass returns its error, or goes on with the next step
Finish(c, next, g) ==
    /\ remote' = c.remote
    /\ host' = c.host
    /\ log' = c.log
    /\ err' = c.err
    /\ nextId' = c.nextId
    /\ pc' = IF c.err # Nil THEN "done" ELSE next
    /\ gi' = IF c.err # Nil THEN 0 ELSE g
    /\ UNCHANGED <<profile, sys, hist>>

\* the successful creates of partitions and physical volumes in a trace
Made(l) ==
    {[kind |-> l[k].kind, for |-> l[k].for] :
        k \in {j \in 1..Len(l) : l[j].op = "create" /\ l[j].ok
                                 /\ l[j].kind \in {"partition", "pv"}}}

\* whether every call of the trace succeeded
NoFailure(l) == \A k \in 1..Len(l) : l[k].ok

\* whether the trace has a create, an update or a delete
Mutated(l) == \E k \in 1..Len(l) : IsMutation(l[k])

\* a reconciler is called when no pass is under way
Enter(op) ==
    /\ pc \in {"idle", "done"}
    /\ nextId <= MaxIds
    /\ hist' = [made |-> hist.made \cup Made(log),
                stable |-> /\ pc = "done"
                           /\ hist.op = "storage"
                           /\ ~hist.envTouched
                           /\ NoFailure(log),
                changed |-> Mutated(log),
                envTouched |-> FALSE,
                op |-> op]
    /\ UNCHANGED <<profile, sys>>

\* a pass begins on a fresh snapshot
Begin(op) ==
    /\ Enter(op)
    /\ host' = Build(remote)
    /\ gi' = 0

ReconcileStorage ==
    /\ Begin("storage")
    /\ log' = <<>>
    /\ err' = Nil
    /\ pc' = IF StorageConfigured THEN StepOrder[1] ELSE "done"
    /\ UNCHANGED <<remote, nextId>>

Monitor ==
    /\ pc = "Monitor"
    /\ \E f \in FailAts :
          Finish(ReconcileMonitor(Ctx(f, FALSE)), After("Monitor"), 0)

FileSystemTypes ==
    /\ pc = "FileSystemTypes"
    /\ \E f \in FailAts :
          Finish(ReconcileFileSystemTypes(Ctx(f, FALSE)), After("FileSystemTypes"), 0)

VolumeGroups ==
    /\ pc = "VolumeGroups"
    /\ \E f \in FailAts :
          IF ~VolumeGroupsConfigured
          THEN Finish(Ctx(f, FALSE), After("VolumeGroups"), 0)
          ELSE Finish(VolumeGroupCreate(Ctx(f, FALSE)),
                      IF Len(profile.vgs[1]) = 0
                      THEN After("VolumeGroups") ELSE "PhysicalVolumes", 1)

PhysicalVolumes ==
    /\ pc = "PhysicalVolumes"
    /\ \E f \in FailAts, ready \in BOOLEAN :
          Finish(ReconcilePhysicalVolumes(Ctx(f, ready), profile.vgs[1][gi]),
                 IF gi < Len(profile.vgs[1])
                 THEN "PhysicalVolumes" ELSE After("VolumeGroups"),
                 IF gi < Len(profile.vgs[1]) THEN gi + 1 ELSE 0)

StaleOSDs ==
    /\ pc = "StaleOSDs"
    /\ \E f \in FailAts :
          Finish(ReconcileStaleOSDs(Ctx(f, FALSE)), After("StaleOSDs"), 0)

OSDs ==
    /\ pc = "OSDs"
    /\ \E f \in FailAts :
          Finish(ReconcileOSDsIfAllowed(Ctx(f, FALSE)), After("OSDs"), 0)

\* ReconcileFileSystemSizes, called on its own on a fresh snapshot
FileSystemSizes ==
    /\ Begin("sizes")
    /\ \E f \in FailAts :
          LET c == ReconcileFileSystemSizes(
                       [Ctx(f, FALSE) EXCEPT !.host = Build(remote), !.log = <<>>])
          IN  /\ pc' = "done"
              /\ remote' = c.remote
              /\ log' = c.log
              /\ err' = c.err
              /\ nextId' = c.nextId

\* ReconcilePhysicalVolumes, called on its own on a fresh snapshot for a
\* group of the profile that the snapshot lacks (ReconcileVolumeGroups calls
\* it for the groups it found or created)
PhysicalVolumesOnly ==
    /\ Enter("pvs")
    /\ profile.vgs # Absent
    /\ \E g \in 1..Len(profile.vgs[1]), f \in FailAts, ready \in BOOLEAN :
          /\ FindVolumeGroup(Build(remote), profile.vgs[1][g].name) = Absent
          /\ LET c == ReconcilePhysicalVolumes(
                          [Ctx(f, ready) EXCEPT !.host = Build(remote), !.log = <<>>],
                          profile.vgs[1][g])
             IN  /\ pc' = "done"
                 /\ gi' = g
                 /\ host' = c.host
                 /\ remote' = c.remote
                 /\ log' = c.log
                 /\ err' = c.err
                 /\ nextId' = c.nextId

\* the inventory service finishes the work on a partition
PartitionSettle ==
    /\ \E k \in 1..Len(remote.parts) :
          /\ IsTransient(remote.parts[k].status)
          /\ remote' = [remote EXCEPT !.parts =
                IF @[k].status = StatusDeleting
                THEN Filter(@, LAMBDA p : p.id # remote.parts[k].id)
                ELSE [@ EXCEPT ![k].status = StatusReady]]
    /\ hist' = [hist EXCEPT !.envTouched = TRUE]
    /\ UNCHANGED <<profile, sys, host, pc, gi, err, log, nextId>>

Next ==
    \/ ReconcileStorage
    \/ Monitor
    \/ FileSystemTypes
    \/ VolumeGroups
    \/ PhysicalVolumes
    \/ StaleOSDs
    \/ OSDs
    \/ FileSystemSizes
    \/ PhysicalVolumesOnly
    \/ PartitionSettle

-----------------------------------------------------------------------------
(* Initial states.                                                         *)

Sizes == 1..MaxSize

DefaultSys ==
    [systemType |-> SystemTypeAllInOne, personality |-> PersonalityController,
     cluster |-> Some([id |-> "cl-1", model |-> DeploymentModelAIO]),
     tier |-> Some("tier-1"), monitorsEnabled |-> TRUE, enabled |-> Kinds,
     available |-> TRUE, operational |-> OperationalEnabled]

EmptyRemote ==
    [monitors |-> <<>>, fs |-> <<>>, vgs |-> <<>>, parts |-> <<>>, pvs |-> <<>>,
     osds |-> <<>>]

EmptyProfile ==
    [hasStorage |-> TRUE, personality |-> Some(PersonalityController),
     monitor |-> Absent, fs |-> Absent, vgs |-> Absent, osds |-> Absent]

\* the sequences of at most two elements of a set, without repetition of key
Lists(S, Key(_)) ==
    {<<>>} \cup {<<x>> : x \in S}
           \cup {p \in S \X S : Key(p[1]) # Key(p[2])}

\* OSD entries of a profile
Journals ==
    {Absent} \cup {Some([location |-> "sdb", size |-> z]) : z \in Sizes}
             \cup {Some([location |-> "sdx", size |-> 1])}

OSDEntries ==
    [function : {FunctionOSD}, path : Paths, journal : Journals]
        \cup [function : {FunctionJournal}, path : Paths, journal : {Absent}]

OSDLists == {Absent} \cup {Some(l) : l \in Lists(OSDEntries, LAMBDA e : e.path)}

\* OSD records the service may hold at the start: one per disk at most, the
\* journal of each absent, collocated, or on a journal OSD of the host
OSDRecords(id, disk) ==
    [id : {id}, disk : {disk}, function : {FunctionOSD, FunctionJournal},
     jloc : {Absent, Some("o-a"), Some("o-b")}, jsize : {1}, tier : {Some("tier-1")}]

JournalsExist(osds) ==
    \A k \in 1..Len(osds) :
        \/ osds[k].jloc = Absent
        \/ osds[k].jloc[1] = osds[k].id
        \/ \E j \in 1..Len(osds) :
              osds[j].id = osds[k].jloc[1] /\ osds[j].function = FunctionJournal

OSDStates ==
    {l \in Lists(OSDRecords("o-a", "dk-a") \cup OSDRecords("o-b", "dk-b"),
                 LAMBDA o : o.id) :
        JournalsExist(l) /\ (Len(l) = 2 => l[1].id = "o-a")}

InitCommon ==
    /\ host = Build(remote)
    /\ pc = "idle"
    /\ gi = 0
    /\ err = Nil
    /\ log = <<>>
    /\ nextId = 1
    /\ hist = [made |-> {}, stable |-> FALSE, changed |-> FALSE,
               envTouched |-> FALSE, op |-> "none"]

\* hosts whose profile configures OSDs only
InitOSD ==
    /\ \E l \in OSDLists, o \in OSDStates :
          /\ profile = [EmptyProfile EXCEPT !.osds = l]
          /\ remote = [EmptyRemote EXCEPT !.osds = o]
    /\ sys = DefaultSys
    /\ InitCommon

NextOSD ==
    \/ ReconcileStorage
    \/ Monitor
    \/ FileSystemTypes
    \/ VolumeGroups
    \/ StaleOSDs
    \/ OSDs

SpecOSD == InitOSD /\ [][NextOSD]_vars

\* hosts of every system type, cluster state and tier state, whose profile
\* lists OSDs without journals
DeploymentModels ==
    {DeploymentModelUndefined, DeploymentModelStorage, DeploymentModelController,
     DeploymentModelAIO}

Clusters == {Absent} \cup {Some([id |-> "cl-1", model |-> m]) : m \in DeploymentModels}

Tiers == {Absent, Some("tier-1")}

GateSystems ==
    [systemType : {SystemTypeAllInOne, SystemTypeStandard},
     personality : {PersonalityController, PersonalityStorage},
     cluster : Clusters, tier : Tiers, monitorsEnabled : BOOLEAN,
     enabled : {Kinds}, available : {TRUE}, operational : {OperationalEnabled}]

GateEntries ==
    [function : {FunctionOSD, FunctionJournal}, path : {"sda", "sdb"},
     journal : {Absent}]

GateOSDStates ==
    {<<>>} \cup {<<o>> : o \in {x \in OSDRecords("o-a", "dk-a") : x.jloc # Some("o-b")}}

InitGate ==
    /\ \E l \in Lists(GateEntries, LAMBDA e : e.path), o \in GateOSDStates :
          /\ profile = [EmptyProfile EXCEPT !.osds = Some(l)]
          /\ remote = [EmptyRemote EXCEPT !.osds = o]
    /\ sys \in GateSystems
    /\ InitCommon

NextGate ==
    \/ ReconcileStorage
    \/ Monitor
    \/ FileSystemTypes
    \/ VolumeGroups
    \/ StaleOSDs
    \/ OSDs

SpecGate == InitGate /\ [][NextGate]_vars

\* physical volume entries of a profile: partitions of a size on a disk, a
\* partition on no disk, a partition without size, a disk, and no disk
PVEntries ==
    [type : {PVTypePartition}, path : {"sda"}, size : {Some(z) : z \in Sizes}]
        \cup {[type |-> PVTypePartition, path |-> "sdx", size |-> Some(1)],
              [type |-> PVTypePartition, path |-> "sda", size |-> Absent],
              [type |-> PVTypeDisk, path |-> "sdb", size |-> Absent],
              [type |-> PVTypeDisk, path |-> "sdx", size |-> Absent]}

\* the lists of at most two entries of a set
Pairs(S) == {<<>>} \cup {<<x>> : x \in S} \cup (S \X S)

VolumeGroup(name, pvs) == [name |-> name, lvmType |-> Absent, pvs |-> pvs]

\* volume group lists of a profile: one group, or two of which the second has
\* one physical volume at most
VolumeGroupLists ==
    {Absent, Some(<<>>)}
        \cup {Some(<<VolumeGroup("cgts-vg", l)>>) : l \in Pairs(PVEntries)}
        \cup {Some(<<VolumeGroup("cgts-vg", l), VolumeGroup("nova-local", m)>>) :
                 l \in Pairs(PVEntries), m \in {<<>>} \cup {<<x>> : x \in PVEntries}}

\* records the service may hold at the start: nothing, a volume group, a
\* partition the service is creating for itself, or a free partition
VolumeGroupStates ==
    {EmptyRemote,
     [EmptyRemote EXCEPT !.vgs = <<[id |-> "vg-1", name |-> "cgts-vg"]>>],
     [EmptyRemote EXCEPT !.parts = <<[id |-> "pt-s", disk |-> "dk-b", size |-> 1,
                                      system |-> TRUE, status |-> StatusCreating]>>],
     [EmptyRemote EXCEPT !.vgs = <<[id |-> "vg-1", name |-> "cgts-vg"]>>,
                         !.parts = <<[id |-> "pt-1", disk |-> "dk-a", size |-> 1,
                                      system |-> FALSE, status |-> StatusReady]>>]}

\* hosts whose profile configures volume groups only
InitVG ==
    /\ \E l \in VolumeGroupLists :
          profile = [EmptyProfile EXCEPT !.vgs = l]
    /\ remote \in VolumeGroupStates
    /\ sys = DefaultSys
    /\ InitCommon

NextVG ==
    \/ ReconcileStorage
    \/ Monitor
    \/ FileSystemTypes
    \/ VolumeGroups
    \/ PhysicalVolumes
    \/ StaleOSDs
    \/ OSDs
    \/ PhysicalVolumesOnly
    \/ PartitionSettle

SpecVG == InitVG /\ [][NextVG]_vars

\* filesystem entries of a profile; "backup" is a filesystem the reconciler
\* neither creates nor deletes
FileSystemNames == {"instances", "ceph", "backup"}

FileSystemEntries == [name : FileSystemNames, size : Sizes]

FileSystemLists == {Absent} \cup {Some(l) : l \in Pairs(FileSystemEntries)}

\* filesystem records the service may hold at the start, of distinct names
FileSystemStates ==
    {<<>>}
        \cup {<<[id |-> "fs-1", name |-> n, size |-> z]>> :
                 n \in FileSystemNames, z \in Sizes}
        \cup {<<[id |-> "fs-1", name |-> "backup", size |-> z],
                [id |-> "fs-2", name |-> n, size |-> y]>> :
                 n \in {"instances", "ceph"}, z \in Sizes, y \in Sizes}
        \cup {<<[id |-> "fs-1", name |-> "instances", size |-> z],
                [id |-> "fs-2", name |-> "ceph", size |-> y]>> :
                 z \in Sizes, y \in Sizes}

\* hosts whose profile configures filesystems only, available or not
InitFS ==
    /\ \E l \in FileSystemLists, f \in FileSystemStates :
          /\ profile = [EmptyProfile EXCEPT !.fs = l]
          /\ remote = [EmptyRemote EXCEPT !.fs = f]
    /\ \E a \in BOOLEAN : sys = [DefaultSys EXCEPT !.available = a]
    /\ InitCommon

NextFS ==
    \/ ReconcileStorage
    \/ Monitor
    \/ FileSystemTypes
    \/ VolumeGroups
    \/ StaleOSDs
    \/ OSDs
    \/ FileSystemSizes

SpecFS == InitFS /\ [][NextFS]_vars

\* monitors a profile may ask for, and the monitors of the service at the start
MonitorEntries == {Absent} \cup {Some([size |-> z]) : z \in {Absent} \cup {Some(y) : y \in Sizes}}

MonitorStates ==
    {<<>>, <<[id |-> "mon-1", host |-> "host-1", size |-> 1]>>}
        \cup {<<[id |-> "mon-1", host |-> "host-1", size |-> 1],
                [id |-> "mon-2", host |-> HostID, size |-> z]>> : z \in Sizes}

\* hosts of any personality whose profile configures a monitor only
InitMonitor ==
    /\ \E m \in MonitorEntries,
          p \in {Absent, Some(PersonalityWorker), Some(PersonalityController)},
          r \in MonitorStates :
          /\ profile = [EmptyProfile EXCEPT !.monitor = m, !.personality = p]
          /\ remote = [EmptyRemote EXCEPT !.monitors = r]
    /\ sys = DefaultSys
    /\ InitCommon

\* hosts of every system type, personality and operational state, whose
\* profile lists OSDs without journals
HostPersonalities ==
    {PersonalityController, PersonalityStorage, PersonalityWorker, "Storage"}

HostSystems ==
    [systemType : {SystemTypeAllInOne, SystemTypeStandard, SystemTypeUnknown},
     personality : HostPersonalities,
     cluster : {Some([id |-> "cl-1", model |-> DeploymentModelStorage])},
     tier : {Some("tier-1")}, monitorsEnabled : {TRUE}, enabled : {Kinds},
     available : {FALSE},
     operational : {OperationalEnabled, OperationalDisabled}]

InitHost ==
    /\ \E l \in Lists(GateEntries, LAMBDA e : e.path), o \in GateOSDStates :
          /\ profile = [EmptyProfile EXCEPT !.osds = Some(l)]
          /\ remote = [EmptyRemote EXCEPT !.osds = o]
    /\ sys \in HostSystems
    /\ InitCommon

NextHost ==
    \/ ReconcileStorage
    \/ Monitor
    \/ FileSystemTypes
    \/ VolumeGroups
    \/ StaleOSDs
    \/ OSDs

SpecHost == InitHost /\ [][NextHost]_vars

NextMonitor ==
    \/ ReconcileStorage
    \/ Monitor
    \/ FileSystemTypes
    \/ VolumeGroups
    \/ StaleOSDs
    \/ OSDs

SpecMonitor == InitMonitor /\ [][NextMonitor]_vars

\* hosts whose profile lists OSDs on a disk or on no disk, with a journal on
\* a journal OSD, on a data OSD, on a disk without OSD or on no disk, on a
\* system whose admission gate is open, or waits for the cluster or the tier
BuildEntries ==
    [function : {FunctionOSD}, path : {"sda", "sdb", "sdx"},
     journal : {Absent, Some([location |-> "sdb", size |-> 1]),
                Some([location |-> "sdx", size |-> 1])}]
        \cup [function : {FunctionJournal}, path : {"sdb", "sdx"}, journal : {Absent}]

BuildOSDStates ==
    {<<>>}
        \cup {<<[id |-> "o-b", disk |-> "dk-b", function |-> f, jloc |-> Some("o-b"),
                 jsize |-> 1, tier |-> Some("tier-1")]>> :
                 f \in {FunctionOSD, FunctionJournal}}

BuildSystems ==
    {DefaultSys, [DefaultSys EXCEPT !.cluster = Absent],
     [DefaultSys EXCEPT !.tier = Absent]}

InitBuild ==
    /\ \E l \in Lists(BuildEntries, LAMBDA e : e.path), o \in BuildOSDStates :
          /\ profile = [EmptyProfile EXCEPT !.osds = Some(l)]
          /\ remote = [EmptyRemote EXCEPT !.osds = o]
    /\ sys \in BuildSystems
    /\ InitCommon

NextBuild ==
    \/ ReconcileStorage
    \/ Monitor
    \/ FileSystemTypes
    \/ VolumeGroups
    \/ StaleOSDs
    \/ OSDs

SpecBuild == InitBuild /\ [][NextBuild]_vars

\* hosts on which ReconcileStorage is called again and again: every disk the
\* profile names is there, every partition entry has a size, no call fails,
\* the service finishes its work on the partitions, and the cluster the
\* admission gate asks for is created at some time
LiveEntries ==
    [function : {FunctionOSD}, path : {"sda", "sdb"},
     journal : {Absent} \cup {Some([location |-> "sdb", size |-> z]) : z \in Sizes}]
        \cup {[function |-> FunctionJournal, path |-> "sdb", journal |-> Absent]}

LiveVolumeGroups ==
    {Absent,
     Some(<<VolumeGroup("cgts-vg",
                        <<[type |-> PVTypePartition, path |-> "sda", size |-> Some(1)],
                          [type |-> PVTypeDisk, path |-> "sdb", size |-> Absent]>>)>>),
     Some(<<VolumeGroup("cgts-vg",
                        <<[type |-> PVTypePartition, path |-> "sda",
                           size |-> Some(MaxSize)]>>)>>)}

LiveOSDStates ==
    {<<>>,
     <<[id |-> "o-b", disk |-> "dk-b", function |-> FunctionOSD, jloc |-> Some("o-b"),
        jsize |-> 1, tier |-> Some("tier-1")]>>,
     <<[id |-> "o-b", disk |-> "dk-b", function |-> FunctionJournal,
        jloc |-> Some("o-b"), jsize |-> 1, tier |-> Some("tier-1")]>>,
     <<[id |-> "o-a", disk |-> "dk-a", function |-> FunctionOSD, jloc |-> Absent,
        jsize |-> 1, tier |-> Some("tier-1")]>>,
     <<[id |-> "o-a", disk |-> "dk-a", function |-> FunctionOSD, jloc |-> Some("o-b"),
        jsize |-> 1, tier |-> Some("tier-1")],
       [id |-> "o-b", disk |-> "dk-b", function |-> FunctionJournal,
        jloc |-> Some("o-b"), jsize |-> 1, tier |-> Some("tier-1")]>>}

LiveStates ==
    {[r EXCEPT !.osds = o] :
        r \in {EmptyRemote,
               [EmptyRemote EXCEPT
                   !.vgs = <<[id |-> "vg-1", name |-> "cgts-vg"]>>,
                   !.parts = <<[id |-> "pt-1", disk |-> "dk-a", size |-> 1,
                                system |-> FALSE, status |-> StatusCreating]>>]},
        o \in LiveOSDStates}

InitLive ==
    /\ \E l \in Lists(LiveEntries, LAMBDA e : e.path), g \in LiveVolumeGroups :
          profile = [EmptyProfile EXCEPT !.osds = Some(l), !.vgs = g]
    /\ remote \in LiveStates
    /\ sys \in {DefaultSys, [DefaultSys EXCEPT !.cluster = Absent]}
    /\ InitCommon

\* the cluster is created
ClusterAppears ==
    /\ sys.cluster = Absent
    /\ sys' = [sys EXCEPT !.cluster = DefaultSys.cluster]
    /\ UNCHANGED <<profile, remote, host, pc, gi, err, log, nextId, hist>>

\* the service applies every call of the step
NoFailedCall == \A j \in 1..Len(log') : log'[j].ok

LiveMonitor == Monitor /\ NoFailedCall

LiveFileSystemTypes == FileSystemTypes /\ NoFailedCall

LiveVolumeGroupStep == VolumeGroups /\ NoFailedCall

LivePhysicalVolumes == PhysicalVolumes /\ NoFailedCall

LiveStaleOSDs == StaleOSDs /\ NoFailedCall

LiveOSDs == OSDs /\ NoFailedCall

\* the pass under way takes its next step: every step of a pass moves pc or
\* the index of the group at hand, and nothing else does
PassSteps == Range(StepOrder) \cup {"PhysicalVolumes"}

Advance ==
    /\ pc \in PassSteps
    /\ pc' \in PassSteps \cup {"done"}
    /\ gi' \in 0..2
    /\ <<pc', gi'>> # <<pc, gi>>

NextLive ==
    \/ ReconcileStorage
    \/ LiveMonitor
    \/ LiveFileSystemTypes
    \/ LiveVolumeGroupStep
    \/ LivePhysicalVolumes
    \/ LiveStaleOSDs
    \/ LiveOSDs
    \/ PartitionSettle
    \/ ClusterAppears

\* a pass runs to its end, the caller goes on calling, the service goes on
\* working
SpecLive ==
    /\ InitLive
    /\ [][NextLive]_vars
    /\ WF_<<pc, gi>>(Advance)
    /\ WF_vars(ReconcileStorage)
    /\ WF_vars(PartitionSettle)
    /\ WF_vars(ClusterAppears)

\* a worker host whose profile configures every group, with one reconciler
\* kind disabled at most, or all of them
Toggles == {Kinds, {}} \cup {Kinds \ {k} : k \in Kinds}

ToggleProfile ==
    [hasStorage |-> TRUE,
     personality |-> Some(PersonalityWorker),
     monitor |-> Some([size |-> Some(1)]),
     fs |-> Some(<<[name |-> "ceph", size |-> MaxSize]>>),
     vgs |-> Some(<<VolumeGroup("cgts-vg",
                                <<[type |-> PVTypePartition, path |-> "sda",
                                   size |-> Some(1)]>>)>>),
     osds |-> Some(<<[function |-> FunctionOSD, path |-> "sdb", journal |-> Absent]>>)]

\* the service holds nothing, or a filesystem to grow, or records of every
\* kind that the profile wants changed
ToggleStates ==
    {EmptyRemote,
     [EmptyRemote EXCEPT !.fs = <<[id |-> "fs-1", name |-> "ceph", size |-> 1]>>],
     [EmptyRemote EXCEPT
         !.monitors = <<[id |-> "mon-2", host |-> HostID, size |-> 2]>>,
         !.fs = <<[id |-> "fs-1", name |-> "instances", size |-> 1]>>,
         !.osds = <<[id |-> "o-a", disk |-> "dk-a", function |-> FunctionOSD,
                     jloc |-> Some("o-a"), jsize |-> 1, tier |-> Some("tier-1")]>>]}

InitToggle ==
    /\ profile = ToggleProfile
    /\ remote \in ToggleStates
    /\ \E t \in Toggles : sys = [DefaultSys EXCEPT !.enabled = t]
    /\ InitCommon

SpecToggle == InitToggle /\ [][Next]_vars

\* all the hosts above
Init ==
    \/ InitOSD
    \/ InitGate
    \/ InitVG
    \/ InitFS
    \/ InitMonitor
    \/ InitHost
    \/ InitBuild
    \/ InitToggle

Spec == Init /\ [][Next]_vars

-----------------------------------------------------------------------------
(* Properties of a pass's trace.                                           *)

\* the positions of the trace
Calls == 1..Len(log)

IsCall(e, op, kind) == e.op = op /\ e.kind = kind

\* the disk a profile entry's path stands for is the record's disk
MatchesByPath(osdInfo, osd) ==
    \E k \in 1..Len(Disks) : Disks[k].path = osdInfo.path /\ Disks[k].id = osd.disk

\* the three cases in which an OSD record is stale
StaleNotDesired(osd) ==
    ~\E k \in 1..Len(DesiredOSDs) : MatchesByPath(DesiredOSDs[k], osd)

StaleFunction(osd) ==
    \E k \in 1..Len(DesiredOSDs) :
        /\ MatchesByPath(DesiredOSDs[k], osd)
        /\ DesiredOSDs[k].function # osd.function

StaleJournal(osd) ==
    \E k \in 1..Len(DesiredOSDs) :
        /\ MatchesByPath(DesiredOSDs[k], osd)
        /\ DesiredOSDs[k].function = osd.function
        /\ DesiredOSDs[k].journal = Absent
        /\ osd.jloc # Absent
        /\ osd.jloc[1] # osd.id

\* the step issues a delete call for the record
DeleteIssued(osd) ==
    \E j \in (Len(log) + 1)..Len(log') :
        IsCall(log'[j], "delete", "osd") /\ log'[j].arg = osd.id

\* C6: when ReconcileStaleOSDs compares the snapshot's OSDs with a declared OSD
\* list, it issues a delete for a record only if (a) no entry matches it by
\* path, (b) the matching entry's function differs or (c) the matching entry
\* has the same function and no journal while the record's journal location
\* is set and is not the record itself; and a step that returns nil has
\* issued the delete for every such record.
C6_StaleDeletion ==
    [][(StaleOSDs /\ profile.osds # Absent /\ IsReconcilerEnabled(sys, "OSD"))
         => \A k \in 1..Len(host.osds) :
               /\ DeleteIssued(host.osds[k])
                    => \/ StaleNotDesired(host.osds[k])
                       \/ StaleFunction(host.osds[k])
                       \/ StaleJournal(host.osds[k])
               /\ (err' = Nil /\ (\/ StaleNotDesired(host.osds[k])
                                  \/ StaleFunction(host.osds[k])
                                  \/ StaleJournal(host.osds[k])))
                    => DeleteIssued(host.osds[k])]_vars

\* a pass deleted a record for its removed journal, next to a record that an
\* entry matches with the same function and that it kept
C6_Witness ==
    /\ pc = "OSDs"
    /\ profile.osds # Absent
    /\ \E j \in Calls :
          /\ IsCall(log[j], "delete", "osd")
          /\ log[j].ok
          /\ StaleJournal(log[j].for)
          /\ ~StaleFunction(log[j].for)
    /\ \E k \in 1..Len(host.osds) :
          /\ ~StaleNotDesired(host.osds[k])
          /\ host.osds[k].jloc = Some(host.osds[k].id)

\* a create call of the trace for a journal-function entry
JournalCreate(i) ==
    IsCall(log[i], "create", "osd") /\ log[i].for.function = FunctionJournal

\* a create call of the trace for a data entry whose journal is at that path
DataCreate(j, path) ==
    /\ IsCall(log[j], "create", "osd")
    /\ log[j].for.function = FunctionOSD
    /\ log[j].for.journal # Absent
    /\ log[j].for.journal[1].location = path

\* C3: when a pass creates a journal OSD and a data OSD whose entry names that
\* journal, the journal's create call comes first, a successful list of the
\* OSDs lies between the two, and the data OSD's request carries as journal
\* location the identifier the service returned for the journal OSD.
C3_JournalBeforeData ==
    \A i \in Calls : \A j \in Calls :
        (JournalCreate(i) /\ DataCreate(j, log[i].for.path))
            => /\ i < j
               /\ log[i].ok
               /\ \E k \in (i + 1)..(j - 1) : IsCall(log[k], "list", "osd") /\ log[k].ok
               /\ log[j].arg.jloc = Some(log[i].resp)

\* a pass created the journal OSD and then the data OSD that names it
C3_Witness ==
    \E i \in Calls : \E j \in Calls :
        /\ JournalCreate(i)
        /\ DataCreate(j, log[i].for.path)
        /\ log[i].ok
        /\ log[j].ok
        /\ \E k \in 1..Len(remote.osds) :
              /\ remote.osds[k].id = log[j].resp
              /\ remote.osds[k].jloc = Some(log[i].resp)

\* the conditions of the admission gate, in the order of the claim
ClusterKnown(s) == s.cluster # Absent

ModelDefined(s) == s.cluster[1].model # DeploymentModelUndefined

MonitorsSuffice(s) ==
    (/\ s.systemType = SystemTypeStandard
     /\ s.cluster[1].model \in {DeploymentModelStorage, DeploymentModelController})
        => s.monitorsEnabled

\* C4: OSDProvisioningAllowed returns the wait of the first unmet condition in
\* the order cluster created, deployment model defined, monitors enabled (on
\* a standard system with a storage or controller model), tier created; it
\* returns nil when all are met, and never an error.
C4_GateOrder ==
    \A t \in Tiers :
        LET r == OSDProvisioningAllowed(sys, t)
        IN  /\ r.type \in {"nil", "wait"}
            /\ ~ClusterKnown(sys) => r = WaitCluster
            /\ (ClusterKnown(sys) /\ ~ModelDefined(sys)) => r = WaitModel
            /\ (ClusterKnown(sys) /\ ModelDefined(sys) /\ ~MonitorsSuffice(sys))
                  => r = WaitMonitors
            /\ (ClusterKnown(sys) /\ ModelDefined(sys) /\ MonitorsSuffice(sys)
                /\ t = Absent) => r = WaitTier
            /\ (ClusterKnown(sys) /\ ModelDefined(sys) /\ MonitorsSuffice(sys)
                /\ t # Absent) => r = Nil

\* a pass ended at the gate with the wait for the monitors although no tier
\* was there either
C4_Witness ==
    /\ pc = "done"
    /\ err = WaitMonitors
    /\ sys.tier = Absent
    /\ hist.op = "storage"

\* C5: every OSD create call of a pass is issued with the gate's conditions
\* met: the cluster is known, its deployment model is defined, the request
\* carries a tier, and the monitors are enabled where they are required.
C5_CreateAfterGate ==
    \A j \in Calls :
        IsCall(log[j], "create", "osd")
            => /\ ClusterKnown(sys)
               /\ ModelDefined(sys)
               /\ log[j].arg.tier # Absent
               /\ MonitorsSuffice(sys)

\* a pass created an OSD on a standard system with a storage deployment model
C5_Witness ==
    \E j \in Calls :
        /\ IsCall(log[j], "create", "osd")
        /\ log[j].ok
        /\ sys.systemType = SystemTypeStandard
        /\ sys.cluster[1].model = DeploymentModelStorage

\* a successful create of a partition or of a physical volume in the trace
Creates(i) ==
    /\ log[i].op = "create"
    /\ log[i].kind \in {"partition", "pv"}
    /\ log[i].ok

\* C7: over the passes made on a host no partition and no physical volume is
\* created twice for the same (group, path, size) of the profile: a create of
\* the current pass is neither repeated in the pass nor was it made by an
\* earlier pass.
C7_NoDuplicateCreate ==
    \A i \in Calls :
        Creates(i)
            => /\ [kind |-> log[i].kind, for |-> log[i].for] \notin hist.made
               /\ \A j \in Calls :
                     (Creates(j) /\ log[j].kind = log[i].kind
                      /\ log[j].for = log[i].for) => j = i

\* one pass created two partitions for one (group, path, size)
C7_Witness ==
    \E i \in Calls : \E j \in Calls :
        /\ i < j
        /\ Creates(i)
        /\ Creates(j)
        /\ log[i].kind = "partition"
        /\ log[j].kind = "partition"
        /\ log[i].for = log[j].for

\* a physical volume entry of partition type with a size for which the
\* snapshot has no partition and the host no disk
Diskless(group, pvInfo) ==
    /\ pvInfo.type = PVTypePartition
    /\ pvInfo.size # Absent
    /\ FindPartitionByPath(host, pvInfo.path, SizeOf(pvInfo), group.name) = Absent
    /\ FindDiskByPath(pvInfo.path) = Absent

\* the step issues a create of that kind for the entry
CreateIssued(kind, group, pvInfo) ==
    \E j \in (Len(log) + 1)..Len(log') :
        IsCall(log'[j], "create", kind) /\ log'[j].for = Identity(group, pvInfo)

\* C9: when ReconcilePhysicalVolumes is called for a group that has a
\* partition entry with a size, no matching partition and no disk at its
\* path, the pass ends with an error, which is MissingSystemResource unless a
\* call for an earlier entry failed, and no partition and no physical volume
\* is created for that entry.
C9_MissingDisk ==
    [][(/\ PhysicalVolumes
        /\ IsReconcilerEnabled(sys, "PhysicalVolume")
        /\ IsReconcilerEnabled(sys, "Partition"))
         => \A k \in 1..Len(profile.vgs[1][gi].pvs) :
               Diskless(profile.vgs[1][gi], profile.vgs[1][gi].pvs[k])
                  => /\ pc' = "done"
                     /\ err'.type = "error"
                     /\ NoFailure(log') => err' = MissingSystemResource
                     /\ ~CreateIssued("partition", profile.vgs[1][gi],
                                      profile.vgs[1][gi].pvs[k])
                     /\ ~CreateIssued("pv", profile.vgs[1][gi],
                                      profile.vgs[1][gi].pvs[k])]_vars

\* a pass created the partition of a group's first entry and ended with
\* MissingSystemResource at the second, whose path is the path of no disk
C9_Witness ==
    /\ pc = "done"
    /\ err = MissingSystemResource
    /\ profile.vgs # Absent
    /\ Len(profile.vgs[1]) = 1
    /\ Len(profile.vgs[1][1].pvs) = 2
    /\ FindVolumeGroup(host, profile.vgs[1][1].name) # Absent
    /\ Diskless(profile.vgs[1][1], profile.vgs[1][1].pvs[2])
    /\ \E j \in Calls :
          /\ IsCall(log[j], "create", "partition")
          /\ log[j].ok
          /\ log[j].for = Identity(profile.vgs[1][1], profile.vgs[1][1].pvs[1])

\* the update calls of ReconcileFileSystemSizes in the trace
SizeUpdates == {j \in Calls : IsCall(log[j], "update", "fs")}

\* the entries of the profile that ask for more than a filesystem of the
\* snapshot has
GrowingEntries ==
    {[name |-> profile.fs[1][k].name, size |-> profile.fs[1][k].size] :
        k \in {i \in 1..Len(profile.fs[1]) :
                 \E f \in 1..Len(host.fs) :
                    /\ host.fs[f].name = profile.fs[1][i].name
                    /\ profile.fs[1][i].size > host.fs[f].size}}

\* ReconcileFileSystemSizes gets to the end of its loop over the profile
SizesCompared ==
    /\ profile.fs # Absent
    /\ IsReconcilerEnabled(sys, "FileSystemSizes")
    /\ IsUnlockedAvailable(sys)
    /\ \A k \in 1..Len(profile.fs[1]) :
          \E f \in 1..Len(host.fs) : host.fs[f].name = profile.fs[1][k].name

\* C10: a call of ReconcileFileSystemSizes issues one update call at most,
\* every entry of it asks for more than the filesystem has in the snapshot;
\* when it has compared every entry of the profile with the snapshot it
\* issues exactly one update call with exactly the growing entries if there
\* is one, and no update call if there is none.
C10_GrowthOnly ==
    hist.op = "sizes"
        => /\ Cardinality(SizeUpdates) <= 1
           /\ \A j \in SizeUpdates :
                 /\ SizesCompared
                 /\ Range(log[j].arg) = GrowingEntries
                 /\ log[j].arg # <<>>
           /\ (SizesCompared /\ GrowingEntries # {}) => SizeUpdates # {}

\* a call with two entries in the profile updated the one that grows and left
\* out the one that asks for less than the filesystem has
C10_Witness ==
    /\ hist.op = "sizes"
    /\ \E j \in SizeUpdates : log[j].ok /\ Len(log[j].arg) = 1
    /\ \E k \in 1..Len(profile.fs[1]) : \E f \in 1..Len(host.fs) :
          /\ host.fs[f].name = profile.fs[1][k].name
          /\ profile.fs[1][k].size < host.fs[f].size

FirstStep(e) ==
    IF e.kind = "monitor" THEN 1
    ELSE IF e.kind = "fs" THEN 2
    ELSE IF e.kind \in {"vg", "partition", "syspartition", "pv"} THEN 3
    ELSE IF e.kind = "osd" /\ e.op \in {"create", "update"} THEN 5
    ELSE 4

LastStep(e) ==
    IF e.kind = "osd" /\ e.op = "list" THEN 5 ELSE FirstStep(e)

\* the number of the step the pass is about to make
StepNumber ==
    IF pc = "PhysicalVolumes" THEN 3
    ELSE IF pc = "done" THEN Len(StepOrder) + 1
    ELSE FirstIdx(StepOrder, LAMBDA x : x = pc)

\* the trace ends where the pass stopped: at a return or at a failed call
Stopped(i) == log[i].op = "return" \/ ~log[i].ok

RemoteCalls == {i \in Calls : log[i].op # "return"}

\* C2: the calls of a pass of ReconcileStorage are issued in the order of the
\* steps Monitor, FileSystemTypes, VolumeGroups (with physical volumes and
\* partitions), StaleOSDs, OSDs; the pass is at no step before the calls of
\* the steps before it; and the pass ends where a step returns a wait or an
\* error: the return or the failed call is the last entry of the trace.
C2_StepOrder ==
    hist.op = "storage"
        => /\ \A i \in RemoteCalls : \A j \in RemoteCalls :
                 i < j => FirstStep(log[i]) <= LastStep(log[j])
           /\ \A i \in RemoteCalls :
                 \/ FirstStep(log[i]) < StepNumber
                 \/ pc = "PhysicalVolumes" /\ FirstStep(log[i]) = 3
           /\ \A i \in Calls : Stopped(i) => i = Len(log)
           /\ err # Nil <=> (log # <<>> /\ Stopped(Len(log)))
           /\ err # Nil => pc = "done"

\* a pass created a volume group and stopped at the wait for a partition it
\* created, with stale OSDs left for a later pass
C2_Witness ==
    /\ hist.op = "storage"
    /\ pc = "done"
    /\ err = WaitPartitions
    /\ \E i \in Calls : IsCall(log[i], "create", "vg") /\ log[i].ok
    /\ \E i \in Calls : IsCall(log[i], "create", "partition") /\ log[i].ok

\* the mutations of the trace that succeeded
Changes(i, kind) == IsMutation(log[i]) /\ log[i].kind = kind /\ log[i].ok

\* a successful list call of the kind between two positions of the trace
ListedBetween(i, j, kind) ==
    \E k \in (i + 1)..(j - 1) : IsCall(log[k], "list", kind) /\ log[k].ok

\* C8: the part of the snapshot a pass has changed is listed again before a
\* dependent reconciler reads it: the volume groups before
\* ReconcilePhysicalVolumes, the partitions (and the system's partitions)
\* before a physical volume is created, the OSDs after the stale ones were
\* deleted and before ReconcileOSDs, and the OSDs after the journal pass and
\* before a data OSD is created or updated.
C8_RefreshBeforeDependents ==
    hist.op = "storage"
        => /\ pc = "PhysicalVolumes" => host.vgs = remote.vgs
           /\ pc = "OSDs" => host.osds = remote.osds
           /\ \A i \in Calls : \A j \in Calls :
                 (i < j /\ Changes(i, "partition") /\ IsCall(log[j], "create", "pv"))
                    => /\ ListedBetween(i, j, "partition")
                       /\ ListedBetween(i, j, "syspartition")
           /\ \A i \in Calls : \A j \in Calls :
                 (/\ i < j
                  /\ Changes(i, "osd")
                  /\ log[i].for.function = FunctionJournal
                  /\ log[i].op # "delete"
                  /\ IsMutation(log[j])
                  /\ log[j].kind = "osd"
                  /\ log[j].for.function = FunctionOSD)
                    => ListedBetween(i, j, "osd")

\* a pass deleted a stale OSD and is about to reconcile the OSDs of a profile
\* that lists some
C8_Witness ==
    /\ hist.op = "storage"
    /\ pc = "OSDs"
    /\ profile.osds # Absent
    /\ Len(profile.osds[1]) > 0
    /\ \E i \in Calls : IsCall(log[i], "delete", "osd") /\ log[i].ok
    /\ host.osds = remote.osds

\* the calls the step adds to the trace
NewCalls == (Len(log) + 1)..Len(log')

\* the names of the profile's filesystems and of the snapshot's
DesiredNames == Range(Names(profile.fs[1]))

CurrentNames == Range(Names(host.fs))

\* C11: every filesystem ReconcileFileSystemTypes creates is named by the
\* profile, is not in the snapshot the step started with and is in the
\* creation allow-list; every filesystem it deletes is in that snapshot, is
\* not named by the profile and is in the deletion allow-list; and no delete
\* call follows a create call of the step.
C11_FileSystemDelta ==
    [][(FileSystemTypes /\ profile.fs # Absent)
         => /\ \A j \in NewCalls :
                  IsCall(log'[j], "create", "fs")
                     => /\ log'[j].for \in DesiredNames
                        /\ log'[j].for \notin CurrentNames
                        /\ log'[j].for \in Range(FileSystemCreationAllowed)
            /\ \A j \in NewCalls :
                  IsCall(log'[j], "delete", "fs")
                     => /\ log'[j].for \in CurrentNames
                        /\ log'[j].for \notin DesiredNames
                        /\ log'[j].for \in Range(FileSystemDeletionAllowed)
                        /\ \E k \in 1..Len(host.fs) : host.fs[k].id = log'[j].arg
            /\ \A i \in NewCalls : \A j \in NewCalls :
                  (IsCall(log'[i], "create", "fs") /\ IsCall(log'[j], "delete", "fs"))
                     => j < i]_vars

\* a pass deleted a filesystem the profile does not name, then created the
\* one it names, and kept a filesystem that is in no allow-list
C11_Witness ==
    /\ hist.op = "storage"
    /\ pc = "VolumeGroups"
    /\ \E i \in Calls : \E j \in Calls :
          /\ i < j
          /\ IsCall(log[i], "delete", "fs") /\ log[i].ok
          /\ IsCall(log[j], "create", "fs") /\ log[j].ok
    /\ \E k \in 1..Len(remote.fs) :
          /\ remote.fs[k].name = "backup"
          /\ "backup" \notin DesiredNames

\* a sequence in the opposite order
Reverse(s) == [k \in 1..Len(s) |-> s[Len(s) + 1 - k]]

\* the three results of a delta as sets
DeltaSets(d) ==
    [added |-> Range(d.added), removed |-> Range(d.removed), same |-> Range(d.same)]

\* the contract of a delta of the current names a and the configured names b
DeltaContract(a, b) ==
    LET d == DeltaSets(ListDelta(a, b))
    IN  /\ d.added \cap Range(a) = {}
        /\ d.removed \cap Range(b) = {}
        /\ d.added \cup d.same = Range(b)
        /\ d.removed \cup d.same = Range(a)
        /\ DeltaSets(ListDelta(Reverse(a), b)) = d
        /\ DeltaSets(ListDelta(a, Reverse(b))) = d
        /\ DeltaSets(ListDelta(Reverse(a), Reverse(b))) = d

\* C12: for the names of the snapshot's filesystems (current) and of the
\* profile's (configured), in either order of each list, ListDelta returns
\* added, removed and unchanged names with added and current disjoint,
\* removed and configured disjoint, added with unchanged the configured
\* names, removed with unchanged the current names, and the same three sets
\* whatever the order of either list; the same holds of the two deltas
\* against the allow-lists.
C12_DeltaContract ==
    profile.fs # Absent
        => /\ DeltaContract(Names(host.fs), Names(profile.fs[1]))
           /\ DeltaContract(ListDelta(Names(host.fs), Names(profile.fs[1])).added,
                            FileSystemCreationAllowed)
           /\ DeltaContract(ListDelta(Names(host.fs), Names(profile.fs[1])).removed,
                            FileSystemDeletionAllowed)

\* a pass took the delta of two current and two configured names that share
\* one name at different positions: it deleted the removed name, created the
\* added name and kept the unchanged one
C12_Witness ==
    /\ hist.op = "storage"
    /\ pc = "VolumeGroups"
    /\ profile.fs # Absent
    /\ Len(profile.fs[1]) = 2
    /\ Len(remote.fs) = 2
    /\ remote.fs[1].name = profile.fs[1][2].name
    /\ \E i \in Calls : \E j \in Calls :
          /\ IsCall(log[i], "delete", "fs") /\ log[i].ok
          /\ log[i].for \notin DesiredNames
          /\ IsCall(log[j], "create", "fs") /\ log[j].ok
          /\ log[j].for = profile.fs[1][1].name
          /\ log[j].for # remote.fs[1].name

\* the role of a host, whatever the spelling of its personality
IsRole(s, role) == Fold(s.personality) = role

\* the classifier's answers that do not depend on the role
ClassifiedByTopology(s) ==
    /\ s.systemType = SystemTypeAllInOne => OSDProvisioningState(s) = RequiredStateAny
    /\ (s.systemType = SystemTypeStandard /\ IsRole(s, PersonalityStorage))
          => OSDProvisioningState(s) = RequiredStateDisabled
    /\ (s.systemType = SystemTypeStandard /\ IsRole(s, PersonalityController))
          => OSDProvisioningState(s) = RequiredStateEnabled

\* the classifier reads the system type and the personality only
ClassifierIsFunction(s) ==
    \A t \in HostSystems \cup GateSystems :
        (t.systemType = s.systemType /\ t.personality = s.personality)
            => OSDProvisioningState(t) = OSDProvisioningState(s)

\* C14 as claimed: OSDProvisioningState depends on the system type and the
\* role only; all-in-one systems give Any for every role; standard systems
\* give Disabled for storage hosts, Enabled for controller hosts and None
\* for hosts of any other role.
C14_ProvisioningState ==
    /\ ClassifierIsFunction(sys)
    /\ ClassifiedByTopology(sys)
    /\ (/\ sys.systemType = SystemTypeStandard
        /\ ~IsRole(sys, PersonalityStorage)
        /\ ~IsRole(sys, PersonalityController))
          => OSDProvisioningState(sys) = RequiredStateNone

\* C14 as amended: OSDProvisioningState depends on the system type and the
\* role only; all-in-one systems give Any for every role; standard systems
\* give Disabled for storage hosts (the personality compared without regard
\* to case) and Enabled for hosts of every other role, workers included; the
\* answer is None only for a system that is neither all-in-one nor standard.
C14_ProvisioningState_Amended ==
    /\ ClassifierIsFunction(sys)
    /\ ClassifiedByTopology(sys)
    /\ (sys.systemType = SystemTypeStandard /\ ~IsRole(sys, PersonalityStorage))
          => OSDProvisioningState(sys) = RequiredStateEnabled
    /\ OSDProvisioningState(sys) = RequiredStateNone
          <=> sys.systemType \notin {SystemTypeAllInOne, SystemTypeStandard}

\* a pass on a worker host of a standard system got to the switch on the
\* provisioning state and ended with nil
C14_Witness ==
    /\ hist.op = "storage"
    /\ pc = "done"
    /\ err = Nil
    /\ sys.systemType = SystemTypeStandard
    /\ IsRole(sys, PersonalityWorker)
    /\ OSDProvisioningState(sys) = RequiredStateEnabled

\* whether the operational state of a host meets a required state
Satisfies(required, operational) ==
    \/ required = RequiredStateAny
    \/ required = RequiredStateDisabled /\ operational = OperationalDisabled
    \/ required = RequiredStateEnabled /\ operational = OperationalEnabled

\* the step leaves the OSDs alone and the pass returns nil
OSDsSkipped ==
    /\ log' = log
    /\ remote' = remote
    /\ err' = Nil
    /\ pc' = "done"

\* the profile lists an OSD that the snapshot does not have
OSDWanted ==
    /\ OSDsConfigured
    /\ \E k \in 1..Len(DesiredOSDs) : FindOSDByPath(host, DesiredOSDs[k].path) = Absent

MonitorCalls(op) == {j \in NewCalls : IsCall(log'[j], op, "monitor")}

\* the monitors of this host among the service's monitors
OwnMonitors == {k \in 1..Len(remote.monitors) : remote.monitors[k].host = HostID}

\* the profile is of a worker host and asks for a monitor
MonitorDesired ==
    /\ profile.personality = Some(PersonalityWorker)
    /\ profile.monitor # Absent

\* the profile sets a size that a monitor of this host does not have
MonitorSizeDiffers ==
    /\ profile.monitor[1].size # Absent
    /\ \E k \in OwnMonitors : remote.monitors[k].size # profile.monitor[1].size[1]

\* C15: ReconcileMonitor issues no create, update or delete of a monitor for
\* a profile whose personality is not worker or that asks for no monitor (a
\* monitor of the host is kept).  For a worker profile that asks for a
\* monitor, once the monitors were listed: an update of the size is issued
\* exactly when the host has a monitor and the size is set and differs; one
\* create is issued when the host has no monitor, none when it has one; and
\* no step issues both a create and an update.
C15_Monitor ==
    [][Monitor
         => /\ ~MonitorDesired
                  => /\ \A j \in NewCalls : ~IsMutation(log'[j])
                     /\ remote' = remote
            /\ MonitorCalls("delete") = {}
            /\ MonitorCalls("create") = {} \/ MonitorCalls("update") = {}
            /\ (MonitorDesired /\ \E j \in MonitorCalls("list") : log'[j].ok)
                  => /\ MonitorCalls("update") # {} <=> MonitorSizeDiffers
                     /\ OwnMonitors = {} => Cardinality(MonitorCalls("create")) = 1
                     /\ OwnMonitors # {} => MonitorCalls("create") = {}
                     /\ \A j \in MonitorCalls("update") :
                           log'[j].arg.size = profile.monitor[1].size]_vars

\* a pass updated the size of the monitor a worker host had and created none
C15_Witness ==
    /\ hist.op = "storage"
    /\ pc = "done"
    /\ err = Nil
    /\ profile.personality = Some(PersonalityWorker)
    /\ \E j \in Calls : IsCall(log[j], "update", "monitor") /\ log[j].ok
    /\ \A j \in Calls : ~IsCall(log[j], "create", "monitor")
    /\ \E k \in 1..Len(remote.monitors) :
          /\ remote.monitors[k].host = HostID
          /\ remote.monitors[k].size = profile.monitor[1].size[1]

\* the reconciler kind that a call of the trace belongs to
Toggle(e) ==
    IF e.kind = "monitor" THEN "StorageMonitor"
    ELSE IF e.kind = "fs" /\ e.op = "update" THEN "FileSystemSizes"
    ELSE IF e.kind = "fs" THEN "FileSystemTypes"
    ELSE IF e.kind = "vg" THEN "VolumeGroup"
    ELSE IF e.kind = "pv" THEN "PhysicalVolume"
    ELSE IF e.kind \in {"partition", "syspartition"} THEN "Partition"
    ELSE "OSD"

Disabled(kind) == ~IsReconcilerEnabled(sys, kind)

\* the step returns nil without a call
StepSkipped ==
    /\ log' = log
    /\ remote' = remote
    /\ err' = Nil

\* C16: a reconciler whose kind is disabled returns nil before any work: no
\* call of a disabled kind (create, update, delete or list) is in the trace
\* of a pass; a pass of ReconcileStorage with the storage kind disabled ends
\* with nil and an empty trace; and each step whose reconciler is disabled
\* (monitor, filesystem types, volume group, physical volume, OSD in the
\* stale and in the main reconciler, filesystem sizes) returns nil and
\* leaves the trace and the service's records as they are.
C16_Toggles ==
    [][/\ \A j \in 1..Len(log') :
             log'[j].op # "return" => ~Disabled(Toggle(log'[j]))
       /\ (ReconcileStorage /\ Disabled("Storage"))
             => pc' = "done" /\ log' = <<>> /\ err' = Nil
       /\ Disabled("Storage") => (hist'.op = "storage" => log' = <<>>)
       /\ (Monitor /\ Disabled("StorageMonitor")) => StepSkipped
       /\ (FileSystemTypes /\ Disabled("FileSystemTypes")) => StepSkipped
       /\ (VolumeGroups /\ Disabled("VolumeGroup"))
             => StepSkipped /\ pc' = After("VolumeGroups")
       /\ (PhysicalVolumes /\ Disabled("PhysicalVolume")) => StepSkipped
       /\ ((StaleOSDs \/ OSDs) /\ Disabled("OSD")) => StepSkipped
       /\ (FileSystemSizes /\ Disabled("FileSystemSizes"))
             => log' = <<>> /\ remote' = remote /\ err' = Nil]_vars

\* a pass with the OSD kind disabled ended with nil: it created the monitor
\* and kept the OSD that no entry of the profile names
C16_Witness ==
    /\ hist.op = "storage"
    /\ pc = "done"
    /\ err = Nil
    /\ Disabled("OSD")
    /\ profile.osds # Absent
    /\ \E k \in 1..Len(remote.osds) : StaleNotDesired(remote.osds[k])
    /\ \E j \in Calls : IsMutation(log[j]) /\ log[j].ok

\* an optional group of the profile that is nil or empty
NotConfigured(group) == group = Absent \/ group[1] = <<>>

\* the mutations of the trace for resources of the given kinds
MutationsOf(kinds) == {j \in Calls : IsMutation(log[j]) /\ log[j].kind \in kinds}

\* C17: a pass of ReconcileStorage issues no create, update or delete of an
\* OSD when the profile's OSD list is nil or empty (no OSD of the host is
\* deleted as stale), none of a volume group, physical volume or partition
\* when the volume group list is nil or empty, and none of a filesystem
\* when the filesystem list is nil or empty.
C17_EmptyGroups ==
    hist.op = "storage"
        => /\ NotConfigured(profile.osds) => MutationsOf({"osd"}) = {}
           /\ NotConfigured(profile.vgs) => MutationsOf({"vg", "pv", "partition"}) = {}
           /\ NotConfigured(profile.fs) => MutationsOf({"fs"}) = {}

\* a pass for a profile whose OSD list is empty deleted an OSD of the host
C17_Witness ==
    /\ hist.op = "storage"
    /\ profile.osds = Some(<<>>)
    /\ \E j \in Calls : IsCall(log[j], "delete", "osd") /\ log[j].ok
    /\ remote.osds = <<>>

\* a partition of the snapshot is being created, modified or deleted
Unsettled(h) == \E k \in 1..Len(h.parts) : IsTransient(h.parts[k].status)

\* the physical volume creates the step adds to the trace
NewPhysicalVolumes == {j \in NewCalls : IsCall(log'[j], "create", "pv")}

\* C18: with the partition and physical volume reconcilers enabled, a call
\* of ReconcilePhysicalVolumes that leaves a partition of the snapshot (one
\* the user asked for or one the service made for itself) in the status
\* creating, modifying or deleting does not return nil: unless an error
\* came first it returns the wait of ReconcilePartitions, and it issues no
\* physical volume create; so a physical volume create is issued only with
\* every partition of the snapshot settled.
C18_PartitionSettle ==
    [][(/\ PhysicalVolumes
        /\ IsReconcilerEnabled(sys, "PhysicalVolume")
        /\ IsReconcilerEnabled(sys, "Partition"))
         => /\ Unsettled(host')
                  => /\ err' # Nil
                     /\ err'.type = "wait" => err' = WaitPartitions
                     /\ pc' = "done"
                     /\ NewPhysicalVolumes = {}
            /\ NewPhysicalVolumes # {} => ~Unsettled(host')
            /\ err' = WaitPartitions => Unsettled(host')]_vars

\* a pass created a partition, listed the partitions again, found the new
\* one in the status creating and ended with the wait, without a physical
\* volume create
C18_Witness ==
    /\ hist.op = "storage"
    /\ pc = "done"
    /\ err = WaitPartitions
    /\ \E i \in Calls : \E j \in Calls :
          /\ i < j
          /\ IsCall(log[i], "create", "partition") /\ log[i].ok
          /\ IsCall(log[j], "list", "syspartition") /\ log[j].ok
          /\ \E k \in 1..Len(host.parts) :
                /\ host.parts[k].id = log[i].resp
                /\ host.parts[k].status = StatusCreating
    /\ \A j \in Calls : ~IsCall(log[j], "create", "pv")

\* a create call of a partition or of a physical volume in the trace
MemberCreate(j) ==
    IsCall(log[j], "create", "partition") \/ IsCall(log[j], "create", "pv")

\* every volume group create of a pass of ReconcileStorage succeeded and was
\* followed by a list of the volume groups before the first create of a
\* partition or of a physical volume
VolumeGroupsFirst ==
    hist.op = "storage"
        => \A i \in Calls : \A j \in Calls :
              (IsCall(log[i], "create", "vg") /\ MemberCreate(j))
                 => /\ i < j
                    /\ log[i].ok
                    /\ ListedBetween(i, j, "vg")

\* the partition creates of a group come before its physical volume creates
PartitionsFirst ==
    \A i \in Calls : \A j \in Calls :
        (/\ IsCall(log[i], "create", "partition")
         /\ IsCall(log[j], "create", "pv")
         /\ log[i].for.group = log[j].for.group)
            => i < j

\* C19: in a pass of ReconcileStorage every volume group create comes
\* before every create of a partition or of a physical volume, with a list
\* of the volume groups between them; the partition creates of a group come
\* before the physical volume creates of that group; and a call of
\* ReconcilePhysicalVolumes for a group that the snapshot lacks returns
\* MissingSystemResource without a call to the service.
C19_GroupsBeforeMembers ==
    [][/\ VolumeGroupsFirst'
       /\ PartitionsFirst'
       /\ (/\ PhysicalVolumesOnly
           /\ IsReconcilerEnabled(sys, "PhysicalVolume")
           /\ FindVolumeGroup(Build(remote), profile.vgs[1][gi'].name) = Absent)
             => /\ err' = MissingSystemResource
                /\ remote' = remote
                /\ \A j \in 1..Len(log') : log'[j].op = "return"]_vars

\* a pass created two volume groups and then, for the first of them, a
\* partition and the physical volume on it
C19_Witness ==
    /\ hist.op = "storage"
    /\ \E g \in Calls : \E h \in Calls : \E i \in Calls : \E j \in Calls :
          /\ g < h /\ h < i /\ i < j
          /\ IsCall(log[g], "create", "vg") /\ log[g].ok
          /\ IsCall(log[h], "create", "vg") /\ log[h].ok
          /\ IsCall(log[i], "create", "partition") /\ log[i].ok
          /\ IsCall(log[j], "create", "pv") /\ log[j].ok
          /\ log[i].for.group = log[g].arg.name
          /\ log[j].for = log[i].for

\* the entries of the profile in the order ReconcileOSDs takes them: the
\* journal entries, then the data entries
EntryOrder ==
    SelectSeq(DesiredOSDs, LAMBDA e : e.function = FunctionJournal)
        \o SelectSeq(DesiredOSDs, LAMBDA e : e.function = FunctionOSD)

\* the first of them for which the snapshot has no OSD, 0 if there is none
FirstAbsentEntry ==
    FirstIdx(EntryOrder, LAMBDA e : \A k \in 1..Len(host.osds) :
                                      ~MatchesByPath(e, host.osds[k]))

\* what may be wrong with an entry
DiskMissing(e) == \A k \in 1..Len(Disks) : Disks[k].path # e.path

JournalMissing(e) ==
    /\ e.journal # Absent
    /\ \A k \in 1..Len(host.osds) :
          ~MatchesByPath([path |-> e.journal[1].location], host.osds[k])

JournalWrong(e) ==
    /\ e.journal # Absent
    /\ \E k \in 1..Len(host.osds) :
          /\ MatchesByPath([path |-> e.journal[1].location], host.osds[k])
          /\ host.osds[k].function # FunctionJournal

BadEntry(e) == DiskMissing(e) \/ JournalMissing(e) \/ JournalWrong(e)

NewOSDCreates == {j \in NewCalls : IsCall(log'[j], "create", "osd")}

\* C20: when ReconcileOSDs comes, with no failed call before, to the first
\* entry for which the snapshot has no OSD, it returns MissingSystemResource
\* if no disk has the entry's path, MissingSystemResource if the disk is
\* there and the entry names a journal at whose path the snapshot has no
\* OSD, and UserDataError if the OSD at the journal's path is not of the
\* journal function; it returns the error whatever the admission gate would
\* answer, and issues no OSD create.
C20_BuildErrors ==
    [][(/\ OSDs
        /\ OSDsConfigured
        /\ OSDProvisioningState(sys) \in {RequiredStateDisabled, RequiredStateAny}
        /\ FirstAbsentEntry # 0
        /\ \A j \in NewCalls : log'[j].ok)
         => /\ DiskMissing(EntryOrder[FirstAbsentEntry])
                  => err' = MissingSystemResource
            /\ (/\ ~DiskMissing(EntryOrder[FirstAbsentEntry])
                /\ JournalMissing(EntryOrder[FirstAbsentEntry]))
                  => err' = MissingSystemResource
            /\ (/\ ~DiskMissing(EntryOrder[FirstAbsentEntry])
                /\ JournalWrong(EntryOrder[FirstAbsentEntry]))
                  => err' = UserDataError
            /\ BadEntry(EntryOrder[FirstAbsentEntry])
                  => /\ NewOSDCreates = {}
                     /\ err'.type = "error"
                     /\ pc' = "done"
            /\ \A j \in NewOSDCreates :
                  /\ ~DiskMissing(log'[j].for)
                  /\ log'[j].for.journal # Absent
                        => \E k \in 1..Len(remote'.osds) :
                              /\ Some(remote'.osds[k].id) = log'[j].arg.jloc
                              /\ remote'.osds[k].function = FunctionJournal
                              /\ MatchesByPath(
                                     [path |-> log'[j].for.journal[1].location],
                                     remote'.osds[k])]_vars

\* a pass ended with UserDataError for an entry whose journal is at the path
\* of a data OSD, on a system without the cluster the gate waits for
C20_Witness ==
    /\ hist.op = "storage"
    /\ pc = "done"
    /\ err = UserDataError
    /\ sys.cluster = Absent
    /\ \E k \in 1..Len(DesiredOSDs) :
          /\ ~DiskMissing(DesiredOSDs[k])
          /\ JournalWrong(DesiredOSDs[k])
    /\ \A j \in Calls : ~IsCall(log[j], "create", "osd")

\* ReconcileFileSystemSizes is enabled and the profile lists a filesystem
SizesWanted ==
    /\ profile.fs # Absent
    /\ IsReconcilerEnabled(sys, "FileSystemSizes")
    /\ Len(profile.fs[1]) > 0

\* C21: a call of ReconcileFileSystemSizes that is enabled, for a profile
\* that lists a filesystem, on a host that is not unlocked and available,
\* returns the wait for the available state and issues no call.
C21_SizesWaitForHost ==
    (hist.op = "sizes" /\ SizesWanted /\ ~sys.available)
        => /\ err = WaitAvailable
           /\ \A j \in Calls : log[j].op = "return"

\* the call waited although an entry of the profile asks for more than the
\* filesystem has
C21_Witness ==
    /\ hist.op = "sizes"
    /\ SizesWanted
    /\ ~sys.available
    /\ err = WaitAvailable
    /\ GrowingEntries # {}

\* the entries of the profile for which the snapshot has no filesystem
UnknownFileSystems ==
    {k \in 1..Len(profile.fs[1]) :
        \A f \in 1..Len(host.fs) : host.fs[f].name # profile.fs[1][k].name}

\* C22: a call of ReconcileFileSystemSizes on an available host, with an
\* entry in the profile for which the snapshot has no filesystem, returns
\* MissingSystemResource and issues no update call, whatever the other
\* entries ask for.
C22_AllOrNothing ==
    (hist.op = "sizes" /\ SizesWanted /\ sys.available /\ UnknownFileSystems # {})
        => /\ err = MissingSystemResource
           /\ \A j \in Calls : log[j].op = "return"

\* the first entry asks for more than its filesystem has, the second has no
\* filesystem, and the call ended with MissingSystemResource
C22_Witness ==
    /\ hist.op = "sizes"
    /\ SizesWanted
    /\ sys.available
    /\ UnknownFileSystems = {2}
    /\ profile.fs[1][1].name \in {e.name : e \in GrowingEntries}
    /\ err = MissingSystemResource

\* the entries of the profile whose OSD the snapshot has, by path, and whose
\* journal the record lacks or has in another size
JournalChanged(e, osd) ==
    /\ MatchesByPath(e, osd)
    /\ e.journal # Absent
    /\ (osd.jloc = Absent \/ osd.jsize # e.journal[1].size)

NeedUpdate ==
    {e \in Range(DesiredOSDs) :
        \E k \in 1..Len(host.osds) : JournalChanged(e, host.osds[k])}

\* the entries for which the step issues an update
NewOSDUpdates == {log'[j].for : j \in {i \in NewCalls : IsCall(log'[i], "update", "osd")}}

\* C23: ReconcileOSDs issues an update only for an entry that declares a
\* journal and whose OSD in the snapshot, matched by path, has no journal
\* location or a journal of another size; when it returns nil it has issued
\* an update for every such entry; an entry without journal, whatever the
\* function and journal of the record, gets none.
C23_UpdateWhenJournalChanged ==
    [][(OSDs /\ OSDsConfigured
             /\ OSDProvisioningState(sys) \in {RequiredStateDisabled, RequiredStateAny})
         => /\ NewOSDUpdates \subseteq NeedUpdate
            /\ err' = Nil => NewOSDUpdates = NeedUpdate
            /\ \A e \in NewOSDUpdates : e.journal # Absent]_vars

\* a pass for a profile of two entries that ended with nil, and whose only
\* mutation is the update of the journal size of an OSD
C23_Witness ==
    /\ hist.op = "storage"
    /\ pc = "done"
    /\ err = Nil
    /\ profile.osds # Absent
    /\ Len(DesiredOSDs) = 2
    /\ \E j \in Calls :
          /\ IsCall(log[j], "update", "osd")
          /\ log[j].ok
          /\ log[j].arg.opts.jloc = Absent
          /\ log[j].arg.opts.jsize = Some(log[j].for.journal[1].size)
    /\ Cardinality({j \in Calls : IsMutation(log[j])}) = 1

\* the successful mutations of a part of the snapshot that no successful
\* list call of that part follows in the trace (the snapshot holds no
\* monitors: ReconcileMonitor lists them from the service at every call)
Unrefreshed ==
    {i \in Calls :
        /\ IsMutation(log[i])
        /\ log[i].ok
        /\ log[i].kind # "monitor"
        /\ \A k \in Calls :
              ~(k > i /\ IsCall(log[k], "list", log[i].kind) /\ log[k].ok)}

\* C24: whenever a reconciler has returned nil, in a pass of ReconcileStorage
\* or called on its own, every successful mutation it made of a part of the
\* snapshot is followed by a list call of that part, so the snapshot is not
\* older than the last mutation.
C24_RefreshAfterMutation ==
    (hist.op \in {"storage", "sizes", "pvs"} /\ err = Nil) => Unrefreshed = {}

\* ReconcileFileSystemSizes returned nil after an update that succeeded, and
\* the snapshot's filesystems are not the service's
C24_Witness ==
    /\ hist.op = "sizes"
    /\ pc = "done"
    /\ err = Nil
    /\ \E j \in SizeUpdates : log[j].ok
    /\ host.fs # remote.fs

\* the entries of the group at hand for which the host has no device: a disk
\* or a partition on a path of no disk, or a partition of no size
Deviceless ==
    {Identity(profile.vgs[1][gi], profile.vgs[1][gi].pvs[k]) :
        k \in {i \in 1..Len(profile.vgs[1][gi].pvs) :
                 \/ \A d \in 1..Len(Disks) :
                       Disks[d].path # profile.vgs[1][gi].pvs[i].path
                 \/ /\ profile.vgs[1][gi].pvs[i].type = PVTypePartition
                    /\ profile.vgs[1][gi].pvs[i].size = Absent}}

\* the create of a physical volume names the volume group of the snapshot
\* with the entry's group name
OwningGroup(e) ==
    \E g \in 1..Len(host.vgs) :
        host.vgs[g].name = e.for.group /\ host.vgs[g].id = e.arg.vg

\* the device of the create is the disk at the entry's path
OnDisk(e) ==
    \E d \in 1..Len(Disks) : Disks[d].path = e.for.path /\ Disks[d].id = e.arg.device

\* the device of the create is a partition of the snapshot, as
\* ReconcilePartitions left it, of the entry's size on the disk at the
\* entry's path, that no physical volume of another group uses
OnPartition(e) ==
    \E k \in 1..Len(host'.parts) :
        /\ host'.parts[k].id = e.arg.device
        /\ host'.parts[k].size = e.for.size
        /\ \E d \in 1..Len(Disks) :
              Disks[d].path = e.for.path /\ Disks[d].id = host'.parts[k].disk
        /\ \A v \in 1..Len(host.pvs) :
              host.pvs[v].device = e.arg.device => host.pvs[v].vg = e.arg.vg

\* C25: every physical volume create of ReconcilePhysicalVolumes carries the
\* identifier of the snapshot's volume group of the entry's group name, and
\* as device the identifier of the snapshot's partition for the entry's
\* path, size and group, or of the disk at the entry's path, by the entry's
\* type; for an entry without such a device no create is issued and the
\* call ends with MissingSystemResource, unless a call failed or the
\* partitions are awaited.
C25_PhysicalVolumePayload ==
    [][(PhysicalVolumes /\ IsReconcilerEnabled(sys, "PhysicalVolume"))
         => /\ \A j \in NewPhysicalVolumes :
                  /\ log'[j].arg.type = log'[j].for.type
                  /\ OwningGroup(log'[j])
                  /\ log'[j].for.type = PVTypePartition => OnPartition(log'[j])
                  /\ log'[j].for.type # PVTypePartition => OnDisk(log'[j])
                  /\ log'[j].for \notin Deviceless
            /\ Deviceless # {}
                  => \/ err' = MissingSystemResource
                     \/ err' = WaitPartitions
                     \/ \E j \in NewCalls : ~log'[j].ok]_vars

\* a pass created a physical volume on a partition it had created and a
\* physical volume on a disk
C25_Witness ==
    /\ hist.op = "storage"
    /\ \E i \in Calls : \E j \in Calls :
          /\ IsCall(log[i], "create", "partition") /\ log[i].ok
          /\ IsCall(log[j], "create", "pv") /\ log[j].ok
          /\ log[j].arg.device = log[i].resp
    /\ \E j \in Calls :
          /\ IsCall(log[j], "create", "pv") /\ log[j].ok
          /\ log[j].for.type = PVTypeDisk
          /\ log[j].arg.device = "dk-b"

\* the journal location a create or an update of an OSD carries
CarriedLocation(e) == IF e.op = "update" THEN e.arg.opts.jloc ELSE e.arg.jloc

\* the create and update calls of OSDs in the trace that carry one
WithLocation ==
    {j \in Calls :
        /\ log[j].kind = "osd"
        /\ log[j].op \in {"create", "update"}
        /\ CarriedLocation(log[j]) # Absent}

\* the identifiers of the journal-function OSDs of the service
JournalIDs ==
    {remote.osds[k].id :
        k \in {i \in 1..Len(remote.osds) : remote.osds[i].function = FunctionJournal}}

\* C26: the journal location of every create and of every update of an OSD
\* is the identifier of a journal-function OSD, never the journal path of
\* the profile.
C26_JournalIdentifier ==
    \A j \in WithLocation :
        /\ CarriedLocation(log[j])[1] \in JournalIDs
        /\ CarriedLocation(log[j])[1] # log[j].for.journal[1].location

\* an update gave an OSD without journal location the journal of its entry,
\* and carries the path the profile names as the location
C26_Witness ==
    \E j \in WithLocation :
        /\ log[j].op = "update"
        /\ log[j].ok
        /\ CarriedLocation(log[j]) = Some(log[j].for.journal[1].location)
        /\ \E k \in 1..Len(remote.osds) :
              /\ remote.osds[k].id = log[j].arg.id
              /\ remote.osds[k].jloc = Some(log[j].for.journal[1].location)

\* the successful deletes of the trace of an OSD that an entry of the profile
\* names by path, and no later create for that entry
DeletedNotRecreated ==
    {i \in Calls :
        /\ IsCall(log[i], "delete", "osd")
        /\ log[i].ok
        /\ \E k \in 1..Len(DesiredOSDs) :
              /\ MatchesByPath(DesiredOSDs[k], log[i].for)
              /\ \A j \in Calls :
                    ~(j > i /\ IsCall(log[j], "create", "osd")
                            /\ log[j].for = DesiredOSDs[k])}

PassReturnedNil ==
    /\ hist.op = "storage"
    /\ pc = "done"
    /\ err = Nil
    /\ profile.osds # Absent

\* C27: a pass of ReconcileStorage that deleted an OSD whose path an entry of
\* the profile names, and returned nil, has issued a create for that entry
\* after the delete.
C27_DeleteThenRecreate ==
    PassReturnedNil => DeletedNotRecreated = {}

\* C27 (amended): the same, for hosts whose provisioning state is Disabled or
\* Any, the states for which ReconcileStorage calls ReconcileOSDs.
C27_DeleteThenRecreate_Amended ==
    (/\ PassReturnedNil
     /\ OSDProvisioningState(sys) \in {RequiredStateDisabled, RequiredStateAny})
        => DeletedNotRecreated = {}

\* a pass deleted an OSD whose function the profile changes, created it
\* again and returned nil
C27_Witness ==
    /\ PassReturnedNil
    /\ OSDProvisioningState(sys) \in {RequiredStateDisabled, RequiredStateAny}
    /\ \E i \in Calls : \E j \in Calls :
          /\ IsCall(log[i], "delete", "osd") /\ log[i].ok
          /\ IsCall(log[j], "create", "osd") /\ log[j].ok
          /\ i < j
          /\ MatchesByPath(log[j].for, log[i].for)
          /\ log[j].for.function # log[i].for.function

\* every journal a data entry names is at the path of a journal entry of the
\* profile
JournalsListed ==
    \A k \in 1..Len(DesiredOSDs) :
        DesiredOSDs[k].journal # Absent
            => \E j \in 1..Len(DesiredOSDs) :
                  /\ DesiredOSDs[j].function = FunctionJournal
                  /\ DesiredOSDs[j].path = DesiredOSDs[k].journal[1].location

\* the snapshot has the volume group, the partition and the physical volume
\* of every entry of the profile, and an OSD at the path of every OSD entry
GroupMatched(group) ==
    /\ FindVolumeGroup(host, group.name) # Absent
    /\ \A k \in 1..Len(group.pvs) :
          /\ FindPhysicalVolume(host, group.name, group.pvs[k].type,
                                group.pvs[k].path, SizeOf(group.pvs[k])) # Absent
          /\ group.pvs[k].type = PVTypePartition
                => \E p \in 1..Len(host.parts) :
                      /\ host.parts[p].size = SizeOf(group.pvs[k])
                      /\ FindDiskByPath(group.pvs[k].path) # Absent
                      /\ host.parts[p].disk = FindDiskByPath(group.pvs[k].path)[1].id

Matched ==
    /\ profile.vgs # Absent
          => \A g \in 1..Len(profile.vgs[1]) : GroupMatched(profile.vgs[1][g])
    /\ \A k \in 1..Len(DesiredOSDs) :
          \E o \in 1..Len(host.osds) : MatchesByPath(DesiredOSDs[k], host.osds[o])

\* a pass has returned nil and issued no mutation
QuietPass ==
    /\ hist.op = "storage"
    /\ pc = "done"
    /\ err = Nil
    /\ \A j \in Calls : ~IsMutation(log[j])

\* C28: when ReconcileStorage is called again and again on a host of
\* provisioning state Any, with every reconciler enabled, every disk of the
\* profile present, no failed call, partitions that get ready and a cluster
\* that appears, a pass comes that issues no mutation and returns nil, and
\* from such a pass on the snapshot has a record for every volume group,
\* partition, physical volume and OSD path of the profile.
C28_Converges ==
    /\ <>QuietPass
    /\ [](QuietPass => []Matched)

\* C28 (amended): the same, for a profile in which every journal a data
\* entry names is at the path of a journal entry.
C28_Converges_Amended ==
    JournalsListed => (<>QuietPass /\ [](QuietPass => []Matched))

\* a pass without mutation has returned nil after passes that created a
\* partition and a journal OSD, for a data entry with a journal
C28_Witness ==
    /\ QuietPass
    /\ Matched
    /\ JournalsListed
    /\ \E m \in hist.made : m.kind = "partition"
    /\ \E k \in 1..Len(DesiredOSDs) : DesiredOSDs[k].journal # Absent
    /\ \E o \in 1..Len(host.osds) :
          host.osds[o].function = FunctionJournal /\ host.osds[o].id # "o-b"

\* how far a pass has come: the step it is at and the group at hand
Position == 10 * StepNumber + gi

\* the create and update calls of the trace for an entry of the profile
CallsFor(kind, ops, entry) ==
    {j \in Calls : log[j].kind = kind /\ log[j].op \in ops /\ log[j].for = entry}

\* the entries of a group that ask for the same physical volume
SameEntries(group, k) ==
    {i \in 1..Len(group.pvs) : group.pvs[i] = group.pvs[k]}

OneCallPerOSD ==
    profile.osds # Absent
        => /\ \A k \in 1..Len(DesiredOSDs) :
                 Cardinality(CallsFor("osd", {"create", "update"}, DesiredOSDs[k])) <= 1
           /\ \A i \in Calls : \A j \in Calls :
                 (/\ IsCall(log[i], "delete", "osd")
                  /\ IsCall(log[j], "delete", "osd")
                  /\ log[i].arg = log[j].arg) => i = j

OneCallPerGroup ==
    profile.vgs # Absent
        => \A g \in 1..Len(profile.vgs[1]) :
              /\ Cardinality(CallsFor("vg", {"create", "update"},
                                      profile.vgs[1][g].name)) <= 1
              /\ \A k \in 1..Len(profile.vgs[1][g].pvs) :
                    Cardinality(CallsFor("pv", {"create", "update"},
                                         Identity(profile.vgs[1][g],
                                                  profile.vgs[1][g].pvs[k])))
                        <= Cardinality(SameEntries(profile.vgs[1][g], k))

\* C29: a pass of ReconcileStorage moves forward with every step and is over
\* after the last one or after the first that returns a wait or an error;
\* in a pass no OSD is deleted twice, no OSD entry has more than one create
\* or update call, no volume group more than one create call, and no
\* physical volume entry more than one physical volume create call.
C29_BoundedPass ==
    /\ [][(pc \in PassSteps /\ (pc' # pc \/ gi' # gi \/ log' # log))
             => Position' > Position]_vars
    /\ [](hist.op = "storage"
            => /\ pc \in PassSteps => err = Nil
               /\ pc = "done" => err.type \in {"nil", "wait", "error"}
               /\ OneCallPerOSD
               /\ OneCallPerGroup)

\* a pass has come to its end with nil after it created a volume group, a
\* partition, a physical volume and an OSD
C29_Witness ==
    /\ hist.op = "storage"
    /\ pc = "done"
    /\ err = Nil
    /\ \E j \in Calls : IsCall(log[j], "create", "vg") /\ log[j].ok
    /\ \E j \in Calls : IsCall(log[j], "create", "partition") /\ log[j].ok
    /\ \E j \in Calls : IsCall(log[j], "create", "pv") /\ log[j].ok
    /\ \E j \in Calls : IsCall(log[j], "create", "osd") /\ log[j].ok

=============================================================================
